---- MODULE Spec2Model ----
(***************************************************************************)
(* Bankroll and staking engine of NBA_Underdog_Bettor.                     *)
(*                                                                         *)
(*   src/src/utils/kelly.py        odds conversion and Kelly sizing        *)
(*   src/src/bankroll/manager.py   metrics, calibration, risk level and    *)
(*                                 dynamic Kelly fraction                  *)
(*   src/src/db/database.py        picks and results tables                *)
(*   src/src/agents/underdog_agent.py, src/main.py   the callers           *)
(*                                                                         *)
(* Python floats are modelled as exact rationals [n, d] in lowest terms    *)
(* with d > 0: every comparison of the source is made on the exact value.  *)
(***************************************************************************)
EXTENDS Integers, Sequences, FiniteSets, TLC

VARIABLES picks, results, settings, args, call, reco, runs

vars == <<picks, results, settings, args, call, reco, runs>>

(***************************************************************************)
(* Exact rational arithmetic standing for Python float arithmetic.         *)
(* Sums and comparisons go through the least common denominator and        *)
(* products cancel first, so that intermediate integers stay small.  Each  *)
(* operation binds its operands once (x \in {a}) before it uses them, so   *)
(* that a nested expression is evaluated a single time.                    *)
(***************************************************************************)
Abs(x) == IF x < 0 THEN -x ELSE x

RECURSIVE GCD(_, _)
GCD(a, b) ==
    IF b = 0 THEN a
    ELSE CHOOSE g \in {GCD(y, x % y) : x \in {a}, y \in {b}} : TRUE

LCM(a, b) == (a \div GCD(a, b)) * b

RatV(n, d) ==
    LET s == IF d < 0 THEN -1 ELSE 1
        g == GCD(Abs(n), Abs(d))
    IN  [n |-> (s * n) \div g, d |-> (s * d) \div g]

Rat(n, d) == CHOOSE r \in {RatV(x, y) : x \in {n}, y \in {d}} : TRUE

Int2Rat(i) == [n |-> i, d |-> 1]
Zero == Int2Rat(0)
One == Int2Rat(1)

RAddV(x, y) == RatV(x.n * (LCM(x.d, y.d) \div x.d) + y.n * (LCM(x.d, y.d) \div y.d),
                    LCM(x.d, y.d))
RMulV(x, y) ==
    RatV((x.n \div GCD(Abs(x.n), y.d)) * (y.n \div GCD(Abs(y.n), x.d)),
         (x.d \div GCD(Abs(y.n), x.d)) * (y.d \div GCD(Abs(x.n), y.d)))
RInvV(x) == IF x.n < 0 THEN [n |-> -x.d, d |-> -x.n] ELSE [n |-> x.d, d |-> x.n]
RLtV(x, y) == x.n * (LCM(x.d, y.d) \div x.d) < y.n * (LCM(x.d, y.d) \div y.d)

RAdd(a, b) == CHOOSE r \in {RAddV(x, y) : x \in {a}, y \in {b}} : TRUE
RNeg(a) == CHOOSE r \in {[n |-> -x.n, d |-> x.d] : x \in {a}} : TRUE
RSub(a, b) == RAdd(a, RNeg(b))
RMul(a, b) == CHOOSE r \in {RMulV(x, y) : x \in {a}, y \in {b}} : TRUE
RDiv(a, b) == CHOOSE r \in {RMulV(x, RInvV(y)) : x \in {a}, y \in {b}} : TRUE
RLt(a, b) == \E x \in {a}, y \in {b} : RLtV(x, y)
RLe(a, b) == \E x \in {a}, y \in {b} : ~ RLtV(y, x)
RGe(a, b) == RLe(b, a)
RGt(a, b) == RLt(b, a)
RMin(a, b) == CHOOSE r \in {IF ~ RLtV(y, x) THEN x ELSE y : x \in {a}, y \in {b}} : TRUE
RMax(a, b) == CHOOSE r \in {IF ~ RLtV(x, y) THEN x ELSE y : x \in {a}, y \in {b}} : TRUE

RECURSIVE Pow10(_)
Pow10(k) == IF k = 0 THEN 1 ELSE 10 * Pow10(k - 1)

\* Python round(x, ndigits): nearest multiple of 10^-ndigits, ties to even.
RoundV(x, p) ==
    LET whole == x.n \div x.d
        rest == (x.n - whole * x.d) * p
        q == rest \div x.d
        r == rest - q * x.d
        up == \/ 2 * r > x.d
              \/ (2 * r = x.d /\ q % 2 = 1)
    IN  RatV(whole * p + (IF up THEN q + 1 ELSE q), p)

Round(x, ndigits) == CHOOSE r \in {RoundV(v, Pow10(ndigits)) : v \in {x}} : TRUE

(***************************************************************************)
(* Python float addition.  A float carries a fixed number of significant   *)
(* bits and every addition rounds its exact result to the nearest float,   *)
(* ties to even.  The sums get_performance_metrics accumulates are         *)
(* modelled with that rounding, at FloatBits significant bits in place of  *)
(* the 53 of a binary64, so that the order in which a sum is accumulated   *)
(* shows in its value as it does in the program.                           *)
(***************************************************************************)
FloatBits == 17

RECURSIVE Pow2(_)
Pow2(k) == IF k = 0 THEN 1 ELSE 2 * Pow2(k - 1)

\* The number of bits of a positive integer.
RECURSIVE BitLength(_)
BitLength(w) == IF w = 0 THEN 0 ELSE 1 + BitLength(w \div 2)

\* The number of times a positive rational below one is doubled to reach one.
RECURSIVE Doublings(_, _)
Doublings(n, d) == IF n >= d THEN 0 ELSE 1 + Doublings(2 * n, d)

\* n/d scaled by 2^shift, as a reduced fraction.
Scaled(n, d, shift) ==
    IF shift >= 0 THEN RMulV([n |-> n, d |-> d], [n |-> Pow2(shift), d |-> 1])
    ELSE RMulV([n |-> n, d |-> d], [n |-> 1, d |-> Pow2(-shift)])

\* The integer nearest to n/d, ties to even.
NearestEven(n, d) ==
    CHOOSE m \in {IF 2 * (n - q * d) > d \/ (2 * (n - q * d) = d /\ q % 2 = 1)
                  THEN q + 1 ELSE q : q \in {n \div d}} : TRUE

\* The number of bits before the binary point of the positive fraction n/d
\* (zero or negative below one).
BitsOf(n, d) == IF n >= d THEN BitLength(n \div d) ELSE 1 - Doublings(n, d)

\* The positive fraction n/d rounded to FloatBits significant bits.
FloatRoundPos(n, d) ==
    CHOOSE r \in
        {IF shift >= 0 THEN RatV(NearestEven(sc.n, sc.d), Pow2(shift))
         ELSE [n |-> NearestEven(sc.n, sc.d) * Pow2(-shift), d |-> 1] :
            <<shift, sc>> \in {<<k, Scaled(n, d, k)>> : k \in {FloatBits - BitsOf(n, d)}}} :
        TRUE

\* Whether a positive integer is a power of two.
RECURSIVE IsPow2(_)
IsPow2(d) == d = 1 \/ (d % 2 = 0 /\ IsPow2(d \div 2))

\* The float nearest to x; a value that is a float already is left as it is.
FloatRoundV(x) ==
    IF x.n = 0 \/ (Abs(x.n) < Pow2(FloatBits) /\ IsPow2(x.d)) THEN x
    ELSE CHOOSE r \in
            {[n |-> (IF x.n < 0 THEN -1 ELSE 1) * y.n, d |-> y.d] :
                y \in {FloatRoundPos(Abs(x.n), x.d)}} : TRUE

\* The float a REAL column or a literal holds for a decimal value.
Float(a) == CHOOSE r \in {FloatRoundV(x) : x \in {a}} : TRUE

\* a + b on floats.
FAdd(a, b) ==
    CHOOSE r \in {Float(RAddV(x, y)) : x \in {Float(a)}, y \in {Float(b)}} : TRUE

(***************************************************************************)
(* Outcome of a Python call: a returned value or a raised exception.       *)
(***************************************************************************)
Return(v) == [exc |-> "none", val |-> v]
Raise(e) == [exc |-> e, val |-> Zero]

(***************************************************************************)
(* src/src/utils/kelly.py                                                  *)
(***************************************************************************)
Confidence == {"high", "medium", "low"}

CONFIDENCE_EDGE(confidence) ==
    CASE confidence = "high" -> Rat(8, 100)
      [] confidence = "medium" -> Rat(4, 100)
      [] confidence = "low" -> Zero
      [] OTHER -> Zero

PROB_CAP == Rat(95, 100)

\* implied_probability with the favourite's branch computed like the underdog's.
implied_probability_favourite(american_odds) ==
    Return(Rat(100, Abs(american_odds) + 100))

implied_probability(american_odds) ==
    IF american_odds > 0
    THEN Return(Rat(100, american_odds + 100))
    ELSE Return(Rat(Abs(american_odds), Abs(american_odds) + 100))

decimal_odds_from_american(american_odds) ==
    IF american_odds > 0
    THEN Return(RAdd(Rat(american_odds, 100), One))
    ELSE IF Abs(american_odds) = 0
         THEN Raise("ZeroDivisionError")
         ELSE Return(RAdd(Rat(100, Abs(american_odds)), One))

calculate_kelly(american_odds, win_probability) ==
    LET decimal_odds == decimal_odds_from_american(american_odds)
    IN  IF decimal_odds.exc # "none" THEN Raise(decimal_odds.exc)
        ELSE LET b == RSub(decimal_odds.val, One)
                 p == win_probability
                 q == RSub(One, p)
             IN  IF b.n = 0 THEN Raise("ZeroDivisionError")
                 ELSE Return(RDiv(RSub(RMul(b, p), q), b))

\* estimate_win_probability without the cap of line 91.
estimate_win_probability_uncapped(american_odds, confidence) ==
    Return(RAdd(Rat(IF american_odds > 0 THEN 100 ELSE Abs(american_odds),
                    Abs(american_odds) + 100),
                CONFIDENCE_EDGE(confidence)))

estimate_win_probability(american_odds, confidence) ==
    LET implied_prob == implied_probability(american_odds)
        edge == CONFIDENCE_EDGE(confidence)
    IN  IF implied_prob.exc # "none" THEN Raise(implied_prob.exc)
        ELSE Return(RMin(RAdd(implied_prob.val, edge), PROB_CAP))

NoSizing ==
    [implied_prob |-> Zero, estimated_prob |-> Zero, full_kelly_pct |-> Zero,
     adjusted_kelly_pct |-> Zero, final_bet_pct |-> Zero, bet_amount |-> Zero,
     expected_value |-> Zero, should_bet |-> FALSE]

\* The caps of lines 134-143 without the minimum-stake branch.
SizingCaps_no_minimum(adjusted_kelly, max_bet_pct, min_bet_pct) ==
    IF RLe(adjusted_kelly, Zero)
    THEN [final_bet_pct |-> Zero, should_bet |-> FALSE]
    ELSE [final_bet_pct |-> RMin(adjusted_kelly, max_bet_pct), should_bet |-> TRUE]

\* The caps of lines 134-143 without the maximum of line 142.
SizingCaps_without_maximum(adjusted_kelly, max_bet_pct, min_bet_pct) ==
    IF RLe(adjusted_kelly, Zero) \/ RLt(adjusted_kelly, min_bet_pct)
    THEN [final_bet_pct |-> Zero, should_bet |-> FALSE]
    ELSE [final_bet_pct |-> adjusted_kelly, should_bet |-> TRUE]

\* Lines 134-143: the caps on the adjusted Kelly fraction.
SizingCaps(adjusted_kelly, max_bet_pct, min_bet_pct) ==
    IF RLe(adjusted_kelly, Zero)
    THEN [final_bet_pct |-> Zero, should_bet |-> FALSE]
    ELSE IF RLt(adjusted_kelly, min_bet_pct)
    THEN [final_bet_pct |-> Zero, should_bet |-> FALSE]
    ELSE [final_bet_pct |-> RMin(adjusted_kelly, max_bet_pct), should_bet |-> TRUE]

\* Lines 149-151: the expected value of the stake.
SizingEV(estimated_prob, bet_amount, decimal_odds) ==
    RSub(RMul(estimated_prob, RMul(bet_amount, RSub(decimal_odds, One))),
         RMul(RSub(One, estimated_prob), bet_amount))

\* Lines 145-162: the dollar amount, the expected value and the returned dict.
SizingDict(implied_prob, estimated_prob, full_kelly, adjusted_kelly, caps, bankroll, decimal_odds) ==
    CHOOSE out \in
        {[implied_prob |-> Round(implied_prob, 4),
          estimated_prob |-> Round(estimated_prob, 4),
          full_kelly_pct |-> Round(RMul(full_kelly, Int2Rat(100)), 2),
          adjusted_kelly_pct |-> Round(RMul(adjusted_kelly, Int2Rat(100)), 2),
          final_bet_pct |-> Round(RMul(caps.final_bet_pct, Int2Rat(100)), 2),
          bet_amount |-> bet_amount,
          expected_value |-> Round(SizingEV(estimated_prob, bet_amount, decimal_odds), 2),
          should_bet |-> caps.should_bet] :
            bet_amount \in {Round(RMul(bankroll, caps.final_bet_pct), 2)}} : TRUE

calculate_bet_sizing(american_odds, confidence, bankroll, kelly_fraction, max_bet_pct, min_bet_pct) ==
    CHOOSE out \in
        {IF implied_prob.exc # "none"
         THEN [exc |-> implied_prob.exc, val |-> NoSizing]
         ELSE IF estimated_prob.exc # "none"
         THEN [exc |-> estimated_prob.exc, val |-> NoSizing]
         ELSE CHOOSE sized \in
            {IF full_kelly.exc # "none"
             THEN [exc |-> full_kelly.exc, val |-> NoSizing]
             ELSE CHOOSE dict \in
                {Return(SizingDict(implied_prob.val, estimated_prob.val, full_kelly.val,
                                   adjusted_kelly,
                                   SizingCaps(adjusted_kelly, max_bet_pct, min_bet_pct),
                                   bankroll,
                                   decimal_odds_from_american(american_odds).val)) :
                    adjusted_kelly \in {RMul(full_kelly.val, kelly_fraction)}} : TRUE :
                full_kelly \in {calculate_kelly(american_odds, estimated_prob.val)}} : TRUE :
            implied_prob \in {implied_probability(american_odds)},
            estimated_prob \in {estimate_win_probability(american_odds, confidence)}} : TRUE

(***************************************************************************)
(* src/src/db/database.py: the picks and results tables.                   *)
(*   picks   : sequence of rows in insertion order, id = position          *)
(*   results : sequence of rows in insertion order, keyed by pick_id       *)
(***************************************************************************)
Range(s) == {s[i] : i \in DOMAIN s}

PickIds == DOMAIN picks

HasResult(pick_id) == \E i \in DOMAIN results : results[i].pick_id = pick_id

ResultOf(pick_id) ==
    results[CHOOSE i \in DOMAIN results : results[i].pick_id = pick_id]

\* One row of "SELECT p.*, r.result, r.profit_loss ... LEFT JOIN results":
\* a pick without a result row has result NULL and profit_loss NULL.
JoinedRow(pick_id) ==
    LET p == picks[pick_id]
    IN  [id |-> pick_id, game_date |-> p.game_date, confidence |-> p.confidence,
         bet_amount |-> p.bet_amount,
         result |-> IF HasResult(pick_id) THEN ResultOf(pick_id).result ELSE "NULL",
         profit_loss |-> IF HasResult(pick_id) THEN ResultOf(pick_id).profit_loss
                         ELSE Zero]

\* The orders in which "ORDER BY p.game_date DESC" may return the rows ids:
\* SQL fixes no order among rows of equal game_date.
RECURSIVE OrderByDateDesc(_)
OrderByDateDesc(ids) ==
    IF ids = {} THEN {<<>>}
    ELSE LET newest == {i \in ids : \A j \in ids : picks[j].game_date <= picks[i].game_date}
         IN  UNION {{<<i>> \o t : t \in OrderByDateDesc(ids \ {i})} : i \in newest}

\* Database.get_all_results(include_shadow=False): every list it may return.
get_all_results ==
    LET ids == {i \in PickIds : picks[i].should_bet}
    IN  {[k \in DOMAIN o |-> JoinedRow(o[k])] : o \in OrderByDateDesc(ids)}

(***************************************************************************)
(* Python list helpers.                                                    *)
(***************************************************************************)
Take(s, n) == SubSeq(s, 1, IF n < Len(s) THEN n ELSE Len(s))

Reversed(s) == [i \in DOMAIN s |-> s[Len(s) + 1 - i]]

\* sum(...) over a list of floats: the accumulator starts at 0 and takes the
\* elements in list order.
RECURSIVE SumFrom(_, _)
SumFrom(acc, s) == IF s = <<>> THEN acc ELSE SumFrom(FAdd(acc, s[1]), Tail(s))

SumRat(s) == SumFrom(Zero, s)

CountResult(s, res) == Cardinality({i \in DOMAIN s : s[i].result = res})

\* sorted(results, key=game_date, reverse=True): a stable sort, so rows of
\* equal game_date keep the order they have in the list.
RECURSIVE InsertDesc(_, _)
InsertDesc(sorted, r) ==
    IF sorted = <<>> THEN <<r>>
    ELSE IF sorted[Len(sorted)].game_date >= r.game_date
         THEN Append(sorted, r)
         ELSE CHOOSE t \in {Append(InsertDesc(front, r), sorted[Len(sorted)]) :
                               front \in {SubSeq(sorted, 1, Len(sorted) - 1)}} : TRUE

RECURSIVE SortedDesc(_)
SortedDesc(s) ==
    IF s = <<>> THEN <<>>
    ELSE CHOOSE t \in {InsertDesc(front, s[Len(s)]) :
                          front \in {SortedDesc(SubSeq(s, 1, Len(s) - 1))}} : TRUE

(***************************************************************************)
(* src/src/bankroll/manager.py                                             *)
(***************************************************************************)
RiskLevel == {"crisis", "cautious", "normal", "aggressive"}

\* An argument left at its default None.
None == [none |-> TRUE]
IsNone(x) == "none" \in DOMAIN x

\* PerformanceMetrics(): the dataclass defaults.
PerformanceMetrics ==
    [win_rate_l10 |-> Zero, win_rate_l20 |-> Zero, win_rate_l50 |-> Zero,
     win_rate_all |-> Zero, current_streak |-> 0, streak_type |-> "",
     roi_l10 |-> Zero, roi_l20 |-> Zero, roi_all |-> Zero,
     total_wagered |-> Zero, total_pl |-> Zero, peak_bankroll |-> Zero,
     current_bankroll |-> Zero, drawdown_pct |-> Zero,
     total_picks |-> 0, wins |-> 0, losses |-> 0]

\* CalibrationMetrics(): the dataclass defaults.
CalibrationMetrics ==
    [expected_high |-> Rat(70, 100), expected_medium |-> Rat(55, 100),
     expected_low |-> Rat(35, 100),
     actual_high |-> Zero, actual_medium |-> Zero, actual_low |-> Zero,
     count_high |-> 0, count_medium |-> 0, count_low |-> 0,
     calibration_high |-> One, calibration_medium |-> One,
     calibration_low |-> One, overall_calibration |-> One]

STREAK_LOSS_THRESHOLD == 3
STREAK_WIN_THRESHOLD == 5
DRAWDOWN_CAUTION == Rat(10, 100)
DRAWDOWN_CRISIS == Rat(20, 100)

RISK_MULTIPLIERS(level) ==
    CASE level = "crisis" -> Rat(25, 100)
      [] level = "cautious" -> Rat(50, 100)
      [] level = "normal" -> One
      [] level = "aggressive" -> Rat(110, 100)

\* BankrollManager.__init__: initial_bankroll or self.settings.bankroll.
BankrollManager_initial_bankroll(initial_bankroll) ==
    IF IsNone(initial_bankroll) \/ initial_bankroll.n = 0
    THEN settings.bankroll
    ELSE initial_bankroll

\* The manager is the singleton built by get_bankroll_manager() with no argument.
initial_bankroll == BankrollManager_initial_bankroll(None)

\* The windowed win rate divided by the window size instead of the number of
\* rows the window holds.
WinRateLast_fixed_window(sorted_results, n) ==
    IF sorted_results # <<>>
    THEN Rat(CountResult(Take(sorted_results, n), "WIN"), n)
    ELSE Zero

WinRateLast(sorted_results, n) ==
    LET last_n == Take(sorted_results, n)
    IN  IF last_n # <<>>
        THEN Rat(CountResult(last_n, "WIN"), Len(last_n))
        ELSE Zero

RoiLast(sorted_results, n) ==
    CHOOSE roi \in
        {IF RGt(wagered_n, Zero)
         THEN RDiv(SumRat([i \in DOMAIN last_n |-> last_n[i].profit_loss]), wagered_n)
         ELSE Zero :
            <<last_n, wagered_n>> \in
                {<<rows, SumRat([i \in DOMAIN rows |-> rows[i].bet_amount])>> :
                    rows \in {Take(sorted_results, n)}}} : TRUE

\* The streak loop without its break: every row that carries first_result counts.
StreakLen_not_stopping(sorted_results, first_result) ==
    IF first_result \in {"WIN", "LOSS"}
    THEN Cardinality({i \in DOMAIN sorted_results :
                         sorted_results[i].result = first_result})
    ELSE 0

\* The loop of lines 162-166: the number of leading rows that carry first_result.
RECURSIVE StreakLen(_, _)
StreakLen(sorted_results, first_result) ==
    IF sorted_results = <<>> THEN 0
    ELSE IF sorted_results[1].result = first_result
            /\ first_result \in {"WIN", "LOSS"}
         THEN 1 + StreakLen(Tail(sorted_results), first_result)
         ELSE 0

\* The peak walk with the starting bankroll left out of the maximum.
RECURSIVE PeakWalk_excluding_start(_, _, _)
PeakWalk_excluding_start(oldest_first, running_total, peak) ==
    IF oldest_first = <<>> THEN peak
    ELSE CHOOSE p \in
            {IF Len(oldest_first) = 1 THEN running
             ELSE RMax(running, PeakWalk_excluding_start(Tail(oldest_first), running, running)) :
                running \in {FAdd(running_total, oldest_first[1].profit_loss)}} : TRUE

\* The loop of lines 176-178 over the rows oldest first.
RECURSIVE PeakWalk(_, _, _)
PeakWalk(oldest_first, running_total, peak) ==
    IF oldest_first = <<>> THEN peak
    ELSE CHOOSE p \in {PeakWalk(Tail(oldest_first), running, RMax(peak, running)) :
                          running \in {FAdd(running_total, oldest_first[1].profit_loss)}} :
            TRUE

\* Lines 146-185 of get_performance_metrics: the dataclass built from the
\* sorted rows and the totals.
MetricsRecord(db_results, sorted_results, total_wagered, total_pl, current_bankroll, peak) ==
    LET total_picks == Len(db_results)
        wins == CountResult(db_results, "WIN")
        losses == CountResult(db_results, "LOSS")
        first_result == sorted_results[1].result
        streak == StreakLen(sorted_results, first_result)
    IN  [win_rate_l10 |-> WinRateLast(sorted_results, 10),
         win_rate_l20 |-> WinRateLast(sorted_results, 20),
         win_rate_l50 |-> WinRateLast(sorted_results, 50),
         win_rate_all |-> IF total_picks > 0 THEN Rat(wins, total_picks) ELSE Zero,
         current_streak |-> IF first_result = "WIN" THEN streak ELSE -streak,
         streak_type |-> IF first_result = "WIN" THEN "W" ELSE "L",
         roi_l10 |-> RoiLast(sorted_results, 10),
         roi_l20 |-> RoiLast(sorted_results, 20),
         roi_all |-> IF RGt(total_wagered, Zero) THEN RDiv(total_pl, total_wagered)
                     ELSE Zero,
         total_wagered |-> total_wagered,
         total_pl |-> total_pl,
         peak_bankroll |-> peak,
         current_bankroll |-> current_bankroll,
         drawdown_pct |-> IF RGt(peak, Zero)
                          THEN RDiv(RSub(peak, current_bankroll), peak)
                          ELSE Zero,
         total_picks |-> total_picks, wins |-> wins, losses |-> losses]

\* BankrollManager.get_performance_metrics, given the list that
\* self._db.get_all_results() returned.
get_performance_metrics(db_results) ==
    IF db_results = <<>>
    THEN [PerformanceMetrics EXCEPT !.current_bankroll = initial_bankroll,
                                    !.peak_bankroll = initial_bankroll]
    ELSE CHOOSE m \in UNION
            {{MetricsRecord(db_results, sorted_results, total_wagered, total_pl,
                            current_bankroll, peak) :
                 current_bankroll \in {FAdd(initial_bankroll, total_pl)},
                 peak \in {PeakWalk(Reversed(sorted_results), initial_bankroll,
                                    initial_bankroll)}} :
                sorted_results \in {SortedDesc(db_results)},
                total_wagered \in
                    {SumRat([i \in DOMAIN db_results |-> db_results[i].bet_amount])},
                total_pl \in
                    {SumRat([i \in DOMAIN db_results |-> db_results[i].profit_loss])}} :
            TRUE

\* The rows of one confidence group: (r.get('confidence') or '').lower().
ByConf(db_results, conf) ==
    {i \in DOMAIN db_results : db_results[i].confidence = conf}

\* The tier ratio without its cap of 1.5.
TierCalibration_uncapped(actual, expected, count) ==
    IF count >= 5 THEN RDiv(actual, expected) ELSE One

TierCalibration(actual, expected, count) ==
    IF count >= 5 THEN RMin(RDiv(actual, expected), Rat(15, 10)) ELSE One

\* The overall score weighted over all three tiers.
OverallCalibration_with_low(calibration) ==
    LET total == calibration.count_high + calibration.count_medium + calibration.count_low
    IN  IF total > 0
        THEN RDiv(RAdd(RAdd(RMul(calibration.calibration_high,
                                 Int2Rat(calibration.count_high)),
                            RMul(calibration.calibration_medium,
                                 Int2Rat(calibration.count_medium))),
                       RMul(calibration.calibration_low, Int2Rat(calibration.count_low))),
                  Int2Rat(total))
        ELSE calibration.overall_calibration

\* Lines 227-233: the overall score, weighted by the HIGH and MEDIUM counts.
OverallCalibration(calibration) ==
    LET total_bet == calibration.count_high + calibration.count_medium
    IN  IF total_bet > 0
        THEN RDiv(RAdd(RMul(calibration.calibration_high,
                            Int2Rat(calibration.count_high)),
                       RMul(calibration.calibration_medium,
                            Int2Rat(calibration.count_medium))),
                  Int2Rat(total_bet))
        ELSE calibration.overall_calibration

\* BankrollManager.get_confidence_calibration, given the list that
\* self._db.get_all_results() returned.
get_confidence_calibration(db_results) ==
    IF db_results = <<>> THEN CalibrationMetrics
    ELSE
    LET c == CalibrationMetrics
        Count(conf) == Cardinality(ByConf(db_results, conf))
        Wins(conf) == Cardinality({i \in ByConf(db_results, conf) :
                                      db_results[i].result = "WIN"})
        Actual(conf) == IF Count(conf) = 0 THEN Zero
                        ELSE Rat(Wins(conf), Count(conf))
        calibration_high ==
            IF Count("high") = 0 THEN c.calibration_high
            ELSE TierCalibration(Actual("high"), c.expected_high, Count("high"))
        calibration_medium ==
            IF Count("medium") = 0 THEN c.calibration_medium
            ELSE TierCalibration(Actual("medium"), c.expected_medium, Count("medium"))
        calibration_low ==
            IF Count("low") = 0 THEN c.calibration_low
            ELSE TierCalibration(Actual("low"), c.expected_low, Count("low"))
    IN  CHOOSE r \in
            {[calibration EXCEPT !.overall_calibration = OverallCalibration(calibration)] :
                calibration \in
                    {[c EXCEPT !.count_high = Count("high"),
                               !.count_medium = Count("medium"),
                               !.count_low = Count("low"),
                               !.actual_high = Actual("high"),
                               !.actual_medium = Actual("medium"),
                               !.actual_low = Actual("low"),
                               !.calibration_high = calibration_high,
                               !.calibration_medium = calibration_medium,
                               !.calibration_low = calibration_low]}} : TRUE

\* "if metrics is None: metrics = self.get_performance_metrics()".
MetricsOrDefault(metrics, db_results) ==
    IF IsNone(metrics) THEN get_performance_metrics(db_results) ELSE metrics

\* "if calibration is None: calibration = self.get_confidence_calibration()".
CalibrationOrDefault(calibration, db_results) ==
    IF IsNone(calibration) THEN get_confidence_calibration(db_results) ELSE calibration

\* get_risk_assessment with the winning-streak test made before the drawdown tests.
get_risk_assessment_streak_first(metrics, db_results) ==
    CHOOSE level \in
        {IF /\ m.current_streak >= STREAK_WIN_THRESHOLD
            /\ RGe(get_confidence_calibration(db_results).overall_calibration, Rat(9, 10))
            /\ RGe(m.win_rate_l10, Rat(60, 100))
         THEN "aggressive"
         ELSE IF RGe(m.drawdown_pct, DRAWDOWN_CRISIS) THEN "crisis"
         ELSE IF RGe(m.drawdown_pct, DRAWDOWN_CAUTION) THEN "cautious"
         ELSE IF m.current_streak <= -STREAK_LOSS_THRESHOLD THEN "cautious"
         ELSE "normal" :
            m \in {MetricsOrDefault(metrics, db_results)}} : TRUE

\* get_risk_assessment with the caution drawdown threshold exclusive.
get_risk_assessment_exclusive(metrics, db_results) ==
    CHOOSE level \in
        {IF RGe(m.drawdown_pct, DRAWDOWN_CRISIS) THEN "crisis"
         ELSE IF RGt(m.drawdown_pct, DRAWDOWN_CAUTION) THEN "cautious"
         ELSE IF m.current_streak <= -STREAK_LOSS_THRESHOLD THEN "cautious"
         ELSE IF /\ m.current_streak >= STREAK_WIN_THRESHOLD
                 /\ RGe(get_confidence_calibration(db_results).overall_calibration,
                        Rat(9, 10))
                 /\ RGe(m.win_rate_l10, Rat(60, 100))
              THEN "aggressive"
              ELSE "normal" :
            m \in {MetricsOrDefault(metrics, db_results)}} : TRUE

\* BankrollManager.get_risk_assessment(metrics). db_results is the list that
\* self._db.get_all_results() returns to the calls made inside it.
get_risk_assessment(metrics, db_results) ==
    CHOOSE level \in
        {IF RGe(m.drawdown_pct, DRAWDOWN_CRISIS) THEN "crisis"
         ELSE IF RGe(m.drawdown_pct, DRAWDOWN_CAUTION) THEN "cautious"
         ELSE IF m.current_streak <= -STREAK_LOSS_THRESHOLD THEN "cautious"
         ELSE IF /\ m.current_streak >= STREAK_WIN_THRESHOLD
                 /\ RGe(get_confidence_calibration(db_results).overall_calibration,
                        Rat(9, 10))
                 /\ RGe(m.win_rate_l10, Rat(60, 100))
              THEN "aggressive"
              ELSE "normal" :
            m \in {MetricsOrDefault(metrics, db_results)}} : TRUE

\* calculate_dynamic_kelly with the calibration penalty applied whatever the
\* number of HIGH and MEDIUM samples.
calculate_dynamic_kelly_any_sample(metrics, calibration, db_results) ==
    CHOOSE k \in
        {RMax(Rat(5, 100),
              RMin(IF RLt(c.overall_calibration, Rat(8, 10))
                   THEN RMul(adjusted_kelly, c.overall_calibration)
                   ELSE adjusted_kelly,
                   RMul(settings.kelly_fraction, Rat(125, 100)))) :
            <<c, adjusted_kelly>> \in
                {<<CalibrationOrDefault(calibration, db_results),
                   RMul(settings.kelly_fraction,
                        RISK_MULTIPLIERS(get_risk_assessment(m, db_results)))>> :
                    m \in {MetricsOrDefault(metrics, db_results)}}} : TRUE

\* BankrollManager.calculate_dynamic_kelly(metrics, calibration).
calculate_dynamic_kelly(metrics, calibration, db_results) ==
    CHOOSE k \in
        {LET base_kelly == settings.kelly_fraction
             penalised ==
                 IF RLt(c.overall_calibration, Rat(8, 10))
                    /\ c.count_high + c.count_medium >= 10
                 THEN RMul(adjusted_kelly, c.overall_calibration)
                 ELSE adjusted_kelly
             min_kelly == Rat(5, 100)
             max_kelly == RMul(base_kelly, Rat(125, 100))
         IN  RMax(min_kelly, RMin(penalised, max_kelly)) :
            <<c, adjusted_kelly>> \in
                {<<CalibrationOrDefault(calibration, db_results),
                   RMul(settings.kelly_fraction,
                        RISK_MULTIPLIERS(get_risk_assessment(m, db_results)))>> :
                    m \in {MetricsOrDefault(metrics, db_results)}}} : TRUE

\* BankrollManager.get_bankroll_context().
get_bankroll_context(db_results) ==
    CHOOSE context \in UNION
        {{[metrics |-> metrics,
           calibration |-> calibration,
           risk_level |-> risk_level,
           base_kelly |-> settings.kelly_fraction,
           dynamic_kelly |-> dynamic_kelly,
           kelly_adjustment |-> RDiv(dynamic_kelly, settings.kelly_fraction),
           current_bankroll |-> metrics.current_bankroll] :
              risk_level \in {get_risk_assessment(metrics, db_results)},
              dynamic_kelly \in {calculate_dynamic_kelly(metrics, calibration,
                                                         db_results)}} :
            metrics \in {get_performance_metrics(db_results)},
            calibration \in {get_confidence_calibration(db_results)}} : TRUE

(***************************************************************************)
(* src/main.py and src/src/agents/underdog_agent.py: proposing, sizing and *)
(* saving a pick; settling pending picks.                                  *)
(***************************************************************************)
BetTypes == {"SPREAD", "MONEYLINE"}

\* UnderdogAgent.analyze_pick, lines 106-122: the Kelly fraction handed to
\* calculate_bet_sizing and what it returns for the recommendation.
analyze_pick(odds, confidence) ==
    CHOOSE r \in
        {[kelly_fraction |-> settings.kelly_fraction,
          exc |-> kelly_result.exc,
          implied_prob |-> kelly_result.val.implied_prob,
          estimated_prob |-> kelly_result.val.estimated_prob,
          bankroll_pct |-> kelly_result.val.final_bet_pct,
          bet_amount |-> kelly_result.val.bet_amount,
          expected_value |-> kelly_result.val.expected_value,
          should_bet |-> kelly_result.val.should_bet] :
            kelly_result \in {calculate_bet_sizing(odds, confidence, settings.bankroll,
                                                   settings.kelly_fraction,
                                                   settings.max_bet_pct,
                                                   settings.min_bet_pct)}} : TRUE

\* The PickRecord that save_pick_to_db builds from a recommendation.
PickRecord(game_id, game_date, underdog, bet_type, line, odds, confidence, r) ==
    [game_id |-> game_id, game_date |-> game_date,
     home_team |-> "HOME", away_team |-> "AWAY", underdog |-> underdog,
     bet_type |-> bet_type, line |-> line, odds |-> odds,
     confidence |-> confidence, bet_amount |-> r.bet_amount,
     should_bet |-> r.should_bet]

\* UNIQUE(game_id, bet_type, underdog) of the picks table.
KeyExists(tbl, rec) ==
    \E i \in DOMAIN tbl : /\ tbl[i].game_id = rec.game_id
                          /\ tbl[i].bet_type = rec.bet_type
                          /\ tbl[i].underdog = rec.underdog

\* save_pick as INSERT OR REPLACE: a row of the same key gives way to the
\* new one.
save_pick_replacing(tbl, rec) ==
    [table |-> Append(SelectSeq(tbl, LAMBDA row : ~ KeyExists(<<row>>, rec)), rec),
     id |-> Len(tbl) + 1]

\* Database.save_pick: INSERT OR IGNORE; the new table and the returned id
\* (0 stands for None).
save_pick(tbl, rec) ==
    IF KeyExists(tbl, rec)
    THEN [table |-> tbl, id |-> 0]
    ELSE [table |-> Append(tbl, rec), id |-> Len(tbl) + 1]

\* main.save_pick_to_db: LOW confidence picks are not saved.
save_pick_to_db(tbl, rec) ==
    IF rec.confidence = "low" THEN [table |-> tbl, id |-> 0]
    ELSE save_pick(tbl, rec)

\* Database.save_result: INSERT OR REPLACE under UNIQUE(pick_id).
save_result(tbl, row) ==
    Append(SelectSeq(tbl, LAMBDA r : r.pick_id # row.pick_id), row)

\* main.update_results, lines 43-98: the ResultRecord of one pending pick
\* whose game is Final.
ResultRecord(pick_id, pick, game) ==
    LET home_score == game.home_score
        away_score == game.away_score
        is_underdog_home == pick.underdog = pick.home_team
        underdog_score == IF is_underdog_home THEN home_score ELSE away_score
        favorite_score == IF is_underdog_home THEN away_score ELSE home_score
        actual_margin == underdog_score - favorite_score
        cover_margin == RAdd(Int2Rat(actual_margin), pick.line)
        result ==
            IF pick.bet_type = "SPREAD"
            THEN IF RGt(cover_margin, Zero) THEN "WIN"
                 ELSE IF RLt(cover_margin, Zero) THEN "LOSS"
                 ELSE "PUSH"
            ELSE IF actual_margin > 0 THEN "WIN"
                 ELSE IF actual_margin < 0 THEN "LOSS"
                 ELSE "PUSH"
        profit_loss ==
            IF result = "WIN"
            THEN IF pick.odds > 0
                 THEN RMul(pick.bet_amount, Rat(pick.odds, 100))
                 ELSE RMul(pick.bet_amount, Rat(100, Abs(pick.odds)))
            ELSE IF result = "LOSS" THEN RNeg(pick.bet_amount)
            ELSE Zero
        roi_pct == IF RGt(pick.bet_amount, Zero)
                   THEN RMul(RDiv(profit_loss, pick.bet_amount), Int2Rat(100))
                   ELSE Zero
    IN  [pick_id |-> pick_id, home_score |-> home_score, away_score |-> away_score,
         result |-> result, actual_margin |-> actual_margin,
         profit_loss |-> profit_loss, roi_pct |-> roi_pct]

\* Database.get_pending_picks(): the ids of the picks without a result row,
\* in each order "ORDER BY p.game_date" may return them.
RECURSIVE OrderByDateAsc(_, _)
OrderByDateAsc(tbl, ids) ==
    IF ids = {} THEN {<<>>}
    ELSE LET oldest == {i \in ids : \A j \in ids : tbl[i].game_date <= tbl[j].game_date}
         IN  UNION {{<<i>> \o t : t \in OrderByDateAsc(tbl, ids \ {i})} : i \in oldest}

\* get_pending_picks without its "r.id IS NULL" condition: every pick is
\* handed to the settlement loop again.
PendingIds_with_settled(ptbl, rtbl) == DOMAIN ptbl

PendingIds(ptbl, rtbl) ==
    {i \in DOMAIN ptbl : ~ \E k \in DOMAIN rtbl : rtbl[k].pick_id = i}

\* The loop of main.update_results over the pending picks: games[g] is what
\* BallDontLieClient.get_game_by_id answers for game g.
RECURSIVE SettleLoop(_, _, _, _)
SettleLoop(ptbl, rtbl, pending, games) ==
    IF pending = <<>> THEN rtbl
    ELSE LET id == pending[1]
             game == games[ptbl[id].game_id]
         IN  IF game.status # "Final"
             THEN SettleLoop(ptbl, rtbl, Tail(pending), games)
             ELSE SettleLoop(ptbl,
                             save_result(rtbl, ResultRecord(id, ptbl[id], game)),
                             Tail(pending), games)

(***************************************************************************)
(* src/scripts/fetch_results.py: the stand-alone settlement script.        *)
(***************************************************************************)
\* calculate_profit_loss with abs() left out: a favourite's win pays
\* bet_amount * (100 / odds).
calculate_profit_loss_without_abs(odds, bet_amount, won) ==
    IF ~ won THEN RNeg(bet_amount)
    ELSE IF odds > 0 THEN RMul(bet_amount, Rat(odds, 100))
    ELSE RMul(bet_amount, Rat(100, odds))

calculate_profit_loss(odds, bet_amount, won) ==
    IF ~ won THEN RNeg(bet_amount)
    ELSE IF odds > 0 THEN RMul(bet_amount, Rat(odds, 100))
    ELSE RMul(bet_amount, Rat(100, Abs(odds)))

determine_spread_result(pick_team, home_team, home_score, away_score, spread) ==
    LET own == IF pick_team = home_team THEN home_score ELSE away_score
        other == IF pick_team = home_team THEN away_score ELSE home_score
        adjusted_score == RAdd(Int2Rat(own), spread)
    IN  IF RGt(adjusted_score, Int2Rat(other)) THEN "WIN"
        ELSE IF RLt(adjusted_score, Int2Rat(other)) THEN "LOSS"
        ELSE "PUSH"

determine_moneyline_result(pick_team, home_team, home_score, away_score) ==
    IF pick_team = home_team
    THEN IF home_score > away_score THEN "WIN" ELSE "LOSS"
    ELSE IF away_score > home_score THEN "WIN" ELSE "LOSS"

\* fetch_results, lines 128-163: the ResultRecord of one pending pick whose
\* game is Final.
FetchedRecord(pick_id, pick, game) ==
    LET home_score == game.home_score
        away_score == game.away_score
        result ==
            IF pick.bet_type = "SPREAD"
            THEN determine_spread_result(pick.underdog, pick.home_team, home_score,
                                         away_score, pick.line)
            ELSE determine_moneyline_result(pick.underdog, pick.home_team, home_score,
                                            away_score)
        profit_loss ==
            IF result = "WIN" THEN calculate_profit_loss(pick.odds, pick.bet_amount, TRUE)
            ELSE IF result = "LOSS"
                 THEN calculate_profit_loss(pick.odds, pick.bet_amount, FALSE)
                 ELSE Zero
        roi_pct == IF RGt(pick.bet_amount, Zero)
                   THEN RMul(RDiv(profit_loss, pick.bet_amount), Int2Rat(100))
                   ELSE Zero
    IN  [pick_id |-> pick_id, home_score |-> home_score, away_score |-> away_score,
         result |-> result, actual_margin |-> home_score - away_score,
         profit_loss |-> profit_loss, roi_pct |-> roi_pct]

\* Database.get_pending_picks(before_date=now): the pending picks whose game
\* date is before now.
PendingBefore(ptbl, rtbl, now) ==
    {i \in PendingIds(ptbl, rtbl) : ptbl[i].game_date < now}

\* The loop of fetch_results over the pending picks.
RECURSIVE FetchLoop(_, _, _, _)
FetchLoop(ptbl, rtbl, pending, games) ==
    IF pending = <<>> THEN rtbl
    ELSE LET id == pending[1]
             game == games[ptbl[id].game_id]
         IN  IF game.status # "Final"
             THEN FetchLoop(ptbl, rtbl, Tail(pending), games)
             ELSE FetchLoop(ptbl,
                            save_result(rtbl, FetchedRecord(id, ptbl[id], game)),
                            Tail(pending), games)

(***************************************************************************)
(* Bounds and input sets.                                                  *)
(***************************************************************************)
\* Analysis runs (main loop bodies) a behaviour may add to its starting ledger.
MaxRuns == 1
\* American odds handed to kelly.py: multiples of 50 up to MaxOddsK steps,
\* and a few extreme quotes.
MaxOddsK == 6
OddsSet == {k * 50 : k \in (-MaxOddsK)..MaxOddsK} \cup {-2000, -700, -110, 10000}

\* config/settings.py defaults, and other values the environment may set.
DefaultSettings ==
    [bankroll |-> Int2Rat(1000), kelly_fraction |-> Rat(15, 100),
     max_bet_pct |-> Rat(3, 100), min_bet_pct |-> Rat(5, 1000)]

SettingsSet ==
    {DefaultSettings,
     [DefaultSettings EXCEPT !.kelly_fraction = Rat(1, 2), !.max_bet_pct = Rat(10, 100)],
     [DefaultSettings EXCEPT !.kelly_fraction = Rat(2, 100)]}

BankrollSet == {Int2Rat(1000), Int2Rat(250)}
KellyFractionSet == {Rat(25, 100), Rat(15, 100), Rat(2, 100), One}
MaxBetPctSet == {Rat(5, 100), Rat(3, 100)}
MinBetPctSet == {Rat(5, 1000), Rat(4, 100)}
ProbSet == {Rat(48, 100), Rat(40, 100)}

\* PerformanceMetrics values a caller may pass: around every threshold.
MetricsArgs ==
    {[PerformanceMetrics EXCEPT !.drawdown_pct = dd, !.current_streak = st,
                                !.win_rate_l10 = wr] :
        dd \in {Zero, Rat(10, 100), Rat(19, 100), Rat(20, 100), Rat(25, 100)},
        st \in {-3, -2, 4, 5, 6},
        wr \in {Rat(59, 100), Rat(60, 100), Rat(65, 100)}}

\* CalibrationMetrics values a caller may pass.
CalibrationArgs ==
    {[CalibrationMetrics EXCEPT !.overall_calibration = oc, !.count_high = ch,
                                !.count_medium = cm] :
        oc \in {Rat(1, 2), Rat(79, 100), Rat(80, 100), Rat(95, 100)},
        ch \in {5},
        cm \in {4, 5}}

\* What BallDontLieClient.get_game_by_id may answer for a game.
GameResponses ==
    {[status |-> "NotFound", home_score |-> 0, away_score |-> 0],
     [status |-> "scheduled", home_score |-> 0, away_score |-> 0],
     [status |-> "Final", home_score |-> 110, away_score |-> 100],
     [status |-> "Final", home_score |-> 100, away_score |-> 110],
     [status |-> "Final", home_score |-> 105, away_score |-> 100],
     [status |-> "Final", home_score |-> 100, away_score |-> 105],
     [status |-> "Final", home_score |-> 100, away_score |-> 100]}

\* The proposal main builds for a game: odd games have a road underdog.
Underdog(game_id) == IF game_id % 2 = 1 THEN "AWAY" ELSE "HOME"
PickOdds(bet_type) == IF bet_type = "SPREAD" THEN -110 ELSE 150
PickLine(bet_type) == IF bet_type = "SPREAD" THEN Int2Rat(5) ELSE Int2Rat(150)

(***************************************************************************)
(* Starting ledgers: histories of earlier runs, one MONEYLINE pick per     *)
(* game and day, saved and settled by the operators above.                 *)
(*   "W" underdog won, "L" underdog lost, "P" tie, "-" not yet settled     *)
(***************************************************************************)
SeedHistories ==
    {<<>>,
     <<<<"high", "L">>, <<"high", "L">>, <<"high", "L">>>>,
     <<<<"high", "W">>, <<"high", "W">>, <<"high", "W">>, <<"high", "W">>, <<"high", "W">>>>,
     <<<<"high", "W">>, <<"high", "W">>, <<"high", "W">>, <<"high", "L">>, <<"high", "-">>>>,
     <<<<"high", "L">>, <<"medium", "W">>, <<"high", "L">>, <<"medium", "L">>,
       <<"high", "W">>, <<"medium", "L">>, <<"high", "L">>, <<"medium", "W">>,
       <<"high", "L">>, <<"medium", "L">>>>}

SeedGame(game_id, outcome) ==
    LET u == IF outcome = "W" THEN 110 ELSE 100
        f == IF outcome = "L" THEN 110 ELSE 100
    IN  [status |-> IF outcome = "-" THEN "scheduled" ELSE "Final",
         home_score |-> IF Underdog(game_id) = "HOME" THEN u ELSE f,
         away_score |-> IF Underdog(game_id) = "HOME" THEN f ELSE u]

RECURSIVE SeedPicks(_)
SeedPicks(h) ==
    IF h = <<>> THEN <<>>
    ELSE LET g == Len(h)
             conf == h[g][1]
             rec == PickRecord(g, g, Underdog(g), "MONEYLINE", PickLine("MONEYLINE"),
                               PickOdds("MONEYLINE"), conf,
                               analyze_pick(PickOdds("MONEYLINE"), conf))
         IN  CHOOSE t \in {save_pick_to_db(earlier, r).table :
                               earlier \in {SeedPicks(SubSeq(h, 1, g - 1))},
                               r \in {rec}} : TRUE

SeedResults(h, ptbl) ==
    SettleLoop(ptbl, <<>>, [i \in DOMAIN ptbl |-> i],
               [g \in DOMAIN h |-> SeedGame(g, h[g][2])])

(***************************************************************************)
(* State.                                                                  *)
(*   picks, results : the two tables                                       *)
(*   settings       : the Settings instance                                *)
(*   args           : the arguments a caller holds for its next call       *)
(*   call           : the last call of a function, the rows it read from   *)
(*                    the store (db) and what it returned                   *)
(*   reco           : the last recommendation analyze_pick produced        *)
(*   runs           : analysis runs made so far                            *)
(***************************************************************************)
Idle == [op |-> "idle"]

TypeOK ==
    /\ \A i \in DOMAIN picks : picks[i].confidence \in Confidence
    /\ \A i \in DOMAIN results : results[i].result \in {"WIN", "LOSS", "PUSH"}
    /\ runs \in 0..MaxRuns

\* A ledger left by earlier runs under the current settings.
InitLedger ==
    /\ settings \in SettingsSet
    /\ \E h \in SeedHistories :
          /\ picks = SeedPicks(h)
          /\ results = SeedResults(h, picks)
    /\ call = Idle
    /\ reco = Idle
    /\ runs = 0

Init ==
    /\ InitLedger
    /\ args = None

\* The date of the latest game in the picks table (0 when it is empty).
LastDate == IF picks = <<>> THEN 0
            ELSE CHOOSE d \in {picks[i].game_date : i \in DOMAIN picks} :
                    \A i \in DOMAIN picks : picks[i].game_date <= d

KnownGames == {picks[i].game_id : i \in DOMAIN picks}

DateOfGame(game_id) ==
    picks[CHOOSE i \in DOMAIN picks : picks[i].game_id = game_id].game_date

\* main, lines 236-260: one proposal is analysed, sized and saved.
AnalyzeAndSave(game_id, game_date, bet_type, confidence) ==
    /\ runs < MaxRuns
    /\ LET odds == PickOdds(bet_type)
           r == analyze_pick(odds, confidence)
           rec == PickRecord(game_id, game_date, Underdog(game_id), bet_type,
                             PickLine(bet_type), odds, confidence, r)
           saved == save_pick_to_db(picks, rec)
       IN  IF r.exc # "none"
           THEN /\ reco' = [op |-> "analyze_pick", odds |-> odds,
                            confidence |-> confidence, result |-> r, pick_id |-> 0]
                /\ picks' = picks
           ELSE /\ reco' = [op |-> "analyze_pick", odds |-> odds,
                            confidence |-> confidence, result |-> r,
                            pick_id |-> saved.id]
                /\ picks' = saved.table
    /\ runs' = runs + 1
    /\ UNCHANGED <<results, settings, args, call>>

\* main.update_results: every pending pick whose game is Final gets a result.
UpdateResults(games) ==
    /\ \E pending \in OrderByDateAsc(picks, PendingIds(picks, results)) :
          results' = SettleLoop(picks, results, pending, games)
    /\ UNCHANGED <<picks, settings, args, call, reco, runs>>

\* get_bankroll_context writing the bankroll it derived back to the settings.
GetBankrollContext_storing_bankroll ==
    /\ \E db_results \in get_all_results :
          /\ call' = [op |-> "get_bankroll_context", args |-> None, db |-> db_results,
                      ret |-> get_bankroll_context(db_results)]
          /\ settings' = [settings EXCEPT
                             !.bankroll = get_performance_metrics(db_results).current_bankroll]
    /\ UNCHANGED <<picks, results, args, reco, runs>>

\* BankrollManager.get_bankroll_context, as main and the dashboard call it.
GetBankrollContext ==
    /\ \E db_results \in get_all_results :
          call' = [op |-> "get_bankroll_context", args |-> None, db |-> db_results,
                   ret |-> get_bankroll_context(db_results)]
    /\ UNCHANGED <<picks, results, settings, args, reco, runs>>

\* BankrollManager.get_risk_assessment(metrics).
GetRiskAssessment ==
    /\ \E db_results \in get_all_results :
          call' = [op |-> "get_risk_assessment", args |-> args, db |-> db_results,
                   ret |-> get_risk_assessment(args.metrics, db_results)]
    /\ UNCHANGED <<picks, results, settings, args, reco, runs>>

\* BankrollManager.calculate_dynamic_kelly(metrics, calibration).
CalculateDynamicKelly ==
    /\ \E db_results \in get_all_results :
          call' = [op |-> "calculate_dynamic_kelly", args |-> args, db |-> db_results,
                   ret |-> calculate_dynamic_kelly(args.metrics, args.calibration,
                                                   db_results)]
    /\ UNCHANGED <<picks, results, settings, args, reco, runs>>

\* The functions of kelly.py, called on their own.
ImpliedProbability ==
    /\ call' = [op |-> "implied_probability", args |-> args,
                ret |-> implied_probability(args.american_odds)]
    /\ UNCHANGED <<picks, results, settings, args, reco, runs>>

DecimalOddsFromAmerican ==
    /\ call' = [op |-> "decimal_odds_from_american", args |-> args,
                ret |-> decimal_odds_from_american(args.american_odds)]
    /\ UNCHANGED <<picks, results, settings, args, reco, runs>>

CalculateKelly ==
    /\ call' = [op |-> "calculate_kelly", args |-> args,
                ret |-> calculate_kelly(args.american_odds, args.win_probability)]
    /\ UNCHANGED <<picks, results, settings, args, reco, runs>>

EstimateWinProbability ==
    /\ call' = [op |-> "estimate_win_probability", args |-> args,
                ret |-> estimate_win_probability(args.american_odds, args.confidence)]
    /\ UNCHANGED <<picks, results, settings, args, reco, runs>>

CalculateBetSizing ==
    /\ call' = [op |-> "calculate_bet_sizing", args |-> args,
                ret |-> calculate_bet_sizing(args.american_odds, args.confidence,
                                             args.bankroll, args.kelly_fraction,
                                             args.max_bet_pct, args.min_bet_pct)]
    /\ UNCHANGED <<picks, results, settings, args, reco, runs>>

(***************************************************************************)
(* Specifications.                                                         *)
(***************************************************************************)
NextAnalyze ==
    \E game_id \in KnownGames \cup {Len(picks) + 1}, bet_type \in BetTypes,
       confidence \in Confidence :
       \E game_date \in IF game_id \in KnownGames THEN {DateOfGame(game_id)}
                        ELSE {d \in {LastDate, LastDate + 1} : d >= 1} :
          AnalyzeAndSave(game_id, game_date, bet_type, confidence)

\* The games update_results asks about: those of the pending picks.
PendingGames == {picks[i].game_id : i \in PendingIds(picks, results)}

NextSettle ==
    \E games \in [PendingGames -> GameResponses] : UpdateResults(games)

\* The ledger: picks are proposed, sized, saved and settled, and the manager
\* reports on it.
Next ==
    \/ NextAnalyze
    \/ NextSettle
    \/ GetBankrollContext

Spec == Init /\ [][Next]_vars

\* The manager's risk functions called with the arguments a caller holds,
\* over a ledger that settlement runs change between the calls.
InitRisk ==
    /\ InitLedger
    /\ args \in [metrics : MetricsArgs \cup {None},
                 calibration : CalibrationArgs \cup {None}]

NextRisk ==
    \/ GetRiskAssessment
    \/ CalculateDynamicKelly
    \/ NextSettle

SpecRisk == InitRisk /\ [][NextRisk]_vars

\* The functions of kelly.py applied to the arguments a caller holds.
InitKelly ==
    /\ settings = DefaultSettings
    /\ picks = <<>>
    /\ results = <<>>
    /\ args \in [american_odds : OddsSet, confidence : Confidence,
                 win_probability : ProbSet, bankroll : BankrollSet,
                 kelly_fraction : KellyFractionSet, max_bet_pct : MaxBetPctSet,
                 min_bet_pct : MinBetPctSet]
    /\ call = Idle
    /\ reco = Idle
    /\ runs = 0

NextKelly ==
    \/ ImpliedProbability
    \/ DecimalOddsFromAmerican
    \/ CalculateKelly
    \/ EstimateWinProbability
    \/ CalculateBetSizing

SpecKelly == InitKelly /\ [][NextKelly]_vars

(***************************************************************************)
(* The derived metrics over ledgers written through Database.save_pick and *)
(* settled by update_results (SpecMetrics). The picks table accepts any    *)
(* PickRecord, so these ledgers also hold LOW picks and picks of stake 0   *)
(* flagged should_bet. An entry is <<confidence, outcome, stake in cents>>. *)
(***************************************************************************)
\* Every history of at most MaxShortHistory picks at stake 20.00 ...
MaxShortHistory == 2
HistoryEntries ==
    {<<conf, outcome, 2000>> : conf \in Confidence, outcome \in {"W", "L", "P", "-"}}

ShortHistories ==
    UNION {[1..n -> HistoryEntries] : n \in 0..MaxShortHistory}

\* ... and longer ones that fill a tier, a window or a walk.
Repeat(entry, n) == [i \in 1..n |-> entry]

LongHistories ==
    {<<<<"high", "W", 2000>>, <<"high", "L", 2000>>, <<"high", "W", 2000>>,
       <<"high", "W", 2000>>, <<"high", "W", 2000>>>>,
     <<<<"medium", "W", 10000>>, <<"medium", "L", 5000>>, <<"high", "W", 2000>>,
       <<"high", "L", 8000>>, <<"high", "L", 2000>>>>,
     Repeat(<<"high", "W", 2000>>, 5),
     Repeat(<<"high", "L", 2000>>, 4) \o <<<<"high", "W", 2000>>>>,
     Repeat(<<"medium", "W", 2000>>, 3) \o Repeat(<<"medium", "L", 2000>>, 2),
     Repeat(<<"low", "W", 2000>>, 4) \o <<<<"low", "L", 2000>>>>,
     Repeat(<<"low", "L", 2000>>, 5) \o Repeat(<<"high", "W", 2000>>, 2),
     Repeat(<<"high", "W", 2000>>, 5) \o Repeat(<<"medium", "L", 2000>>, 5)
        \o Repeat(<<"low", "L", 2000>>, 2),
     Repeat(<<"high", "L", 2000>>, 6) \o Repeat(<<"medium", "W", 2000>>, 6),
     <<<<"high", "W", 0>>, <<"medium", "L", 0>>>>,
     Repeat(<<"high", "W", 2000>>, 11) \o Repeat(<<"high", "L", 0>>, 10),
     <<<<"high", "W", 892>>, <<"high", "W", 2725>>, <<"high", "W", 870>>>>}

MetricHistories == ShortHistories \cup LongHistories

RECURSIVE MetricPicks(_)
MetricPicks(h) ==
    IF h = <<>> THEN <<>>
    ELSE CHOOSE t \in
            {save_pick(earlier,
                       PickRecord(g, g, Underdog(g), "MONEYLINE", PickLine("MONEYLINE"),
                                  PickOdds("MONEYLINE"), h[g][1],
                                  [bet_amount |-> Rat(h[g][3], 100), should_bet |-> TRUE])).table :
                earlier \in {MetricPicks(SubSeq(h, 1, Len(h) - 1))}, g \in {Len(h)}} : TRUE

\* BankrollManager.get_performance_metrics().
GetPerformanceMetrics ==
    /\ \E db_results \in get_all_results :
          call' = [op |-> "get_performance_metrics", args |-> None, db |-> db_results,
                   ret |-> get_performance_metrics(db_results)]
    /\ UNCHANGED <<picks, results, settings, args, reco, runs>>

\* BankrollManager.get_confidence_calibration().
GetConfidenceCalibration ==
    /\ \E db_results \in get_all_results :
          call' = [op |-> "get_confidence_calibration", args |-> None, db |-> db_results,
                   ret |-> get_confidence_calibration(db_results)]
    /\ UNCHANGED <<picks, results, settings, args, reco, runs>>

InitMetrics ==
    /\ settings = DefaultSettings
    /\ \E h \in MetricHistories :
          /\ picks = MetricPicks(h)
          /\ results = SeedResults(h, picks)
    /\ args = [metrics |-> None, calibration |-> None,
               american_odds |-> PickOdds("MONEYLINE"), confidence |-> "high",
               bankroll |-> settings.bankroll, kelly_fraction |-> settings.kelly_fraction,
               max_bet_pct |-> settings.max_bet_pct, min_bet_pct |-> settings.min_bet_pct]
    /\ call = Idle
    /\ reco = Idle
    /\ runs = 0

NextMetrics ==
    \/ GetPerformanceMetrics
    \/ GetConfidenceCalibration
    \/ GetRiskAssessment
    \/ CalculateDynamicKelly
    \/ GetBankrollContext
    \/ CalculateBetSizing

SpecMetrics == InitMetrics /\ [][NextMetrics]_vars

(***************************************************************************)
(* Settlement (SpecSettle): ledgers of pending picks, settled by           *)
(* main.update_results and by scripts/fetch_results.py while the manager   *)
(* reports on them. An entry is <<bet type, stake in cents>>; the pick of  *)
(* game g is played on day g.                                              *)
(***************************************************************************)
PendingLedgers ==
    {<<>>,
     <<<<"MONEYLINE", 2000>>>>,
     <<<<"SPREAD", 2000>>>>,
     <<<<"MONEYLINE", 6667>>, <<"SPREAD", 6667>>>>,
     <<<<"SPREAD", 0>>, <<"MONEYLINE", 2000>>>>}

RECURSIVE PendingPicks(_)
PendingPicks(l) ==
    IF l = <<>> THEN <<>>
    ELSE CHOOSE t \in
            {save_pick(earlier,
                       PickRecord(g, g, Underdog(g), l[g][1], PickLine(l[g][1]),
                                  PickOdds(l[g][1]), "high",
                                  [bet_amount |-> Rat(l[g][2], 100),
                                   should_bet |-> TRUE])).table :
                earlier \in {PendingPicks(SubSeq(l, 1, Len(l) - 1))}, g \in {Len(l)}} : TRUE

\* scripts/fetch_results.fetch_results, run at date now.
FetchResults(games, now) ==
    /\ \E pending \in OrderByDateAsc(picks, PendingBefore(picks, results, now)) :
          results' = FetchLoop(picks, results, pending, games)
    /\ UNCHANGED <<picks, settings, args, call, reco, runs>>

NextFetch ==
    \E games \in [PendingGames -> GameResponses], now \in 1..(LastDate + 1) :
        FetchResults(games, now)

InitSettle ==
    /\ settings = DefaultSettings
    /\ \E l \in PendingLedgers : picks = PendingPicks(l)
    /\ results = <<>>
    /\ args = [metrics |-> None, calibration |-> None,
               american_odds |-> PickOdds("MONEYLINE"), confidence |-> "high",
               bankroll |-> settings.bankroll, kelly_fraction |-> settings.kelly_fraction,
               max_bet_pct |-> settings.max_bet_pct, min_bet_pct |-> settings.min_bet_pct]
    /\ call = Idle
    /\ reco = Idle
    /\ runs = 0

NextSettlement ==
    \/ NextSettle
    \/ NextFetch
    \/ GetPerformanceMetrics
    \/ GetConfidenceCalibration
    \/ GetRiskAssessment
    \/ CalculateDynamicKelly
    \/ GetBankrollContext
    \/ CalculateBetSizing

SpecSettle == InitSettle /\ [][NextSettlement]_vars

(***************************************************************************)
(* Properties of the risk level and the dynamic Kelly fraction (SpecRisk). *)
(***************************************************************************)
\* The metrics and the calibration a call of the manager worked with.
MetricsOfCall ==
    IF IsNone(call.args.metrics) THEN get_performance_metrics(call.db)
    ELSE call.args.metrics

CalibrationOfCall ==
    IF IsNone(call.args.calibration) THEN get_confidence_calibration(call.db)
    ELSE call.args.calibration

\* The calibration of the rows the store held when the call was made.
StoreCalibrationOfCall == get_confidence_calibration(call.db)

\* The ordered decision table of the risk level, for a drawdown, a streak, a
\* last-10 win rate and an overall calibration.
DecisionTable(drawdown_pct, current_streak, win_rate_l10, overall_calibration) ==
    IF RGe(drawdown_pct, Rat(20, 100)) THEN "crisis"
    ELSE IF RGe(drawdown_pct, Rat(10, 100)) \/ current_streak <= -3 THEN "cautious"
    ELSE IF /\ current_streak >= 5
            /\ RGe(overall_calibration, Rat(9, 10))
            /\ RGe(win_rate_l10, Rat(60, 100))
    THEN "aggressive"
    ELSE "normal"

MultiplierTable(level) ==
    CASE level = "crisis" -> Rat(25, 100)
      [] level = "cautious" -> Rat(50, 100)
      [] level = "normal" -> Int2Rat(1)
      [] level = "aggressive" -> Rat(110, 100)

\* C1: whenever the drawdown of the metrics is at least 0.20,
\* get_risk_assessment returns CRISIS, whatever the streak, the calibration
\* and the last-10 win rate are.
C1_CrisisPrecedence ==
    (call.op = "get_risk_assessment" /\ RGe(MetricsOfCall.drawdown_pct, Rat(20, 100)))
        => call.ret = "crisis"

\* A call with a drawdown of at least 0.20 while the streak, the win rate and
\* the calibration all meet the AGGRESSIVE conditions.
C1_Witness ==
    /\ call.op = "get_risk_assessment"
    /\ RGe(MetricsOfCall.drawdown_pct, Rat(20, 100))
    /\ MetricsOfCall.current_streak >= 5
    /\ RGe(MetricsOfCall.win_rate_l10, Rat(60, 100))
    /\ RGe(StoreCalibrationOfCall.overall_calibration, Rat(9, 10))
    /\ call.ret = "crisis"

\* C2: the level get_risk_assessment returns is the one the ordered decision
\* table gives (inclusive thresholds), the overall calibration being the one
\* the function obtains from get_confidence_calibration(); it is one of the
\* four levels.
C2_DecisionTable ==
    call.op = "get_risk_assessment" =>
        /\ call.ret \in RiskLevel
        /\ call.ret = DecisionTable(MetricsOfCall.drawdown_pct,
                                    MetricsOfCall.current_streak,
                                    MetricsOfCall.win_rate_l10,
                                    StoreCalibrationOfCall.overall_calibration)

\* AGGRESSIVE returned with the streak and the win rate exactly on their
\* thresholds.
C2_Witness ==
    /\ call.op = "get_risk_assessment"
    /\ ~IsNone(call.args.metrics)
    /\ call.args.metrics.current_streak = 5
    /\ call.args.metrics.win_rate_l10 = Rat(60, 100)
    /\ call.ret = "aggressive"

\* C3 (as the specification states it): the value calculate_dynamic_kelly
\* returns never exceeds 125% of the configured base fraction.
C3_AtMost125PctOfBase ==
    call.op = "calculate_dynamic_kelly" =>
        RLe(call.ret, RMul(settings.kelly_fraction, Rat(125, 100)))

\* The fraction before the floor: base * multiplier[level], times the overall
\* calibration iff it is below 0.8 with at least 10 HIGH+MEDIUM samples.
C4_Unfloored ==
    LET level == DecisionTable(MetricsOfCall.drawdown_pct,
                               MetricsOfCall.current_streak,
                               MetricsOfCall.win_rate_l10,
                               StoreCalibrationOfCall.overall_calibration)
        scaled == RMul(settings.kelly_fraction, MultiplierTable(level))
        c == CalibrationOfCall
    IN  IF RLt(c.overall_calibration, Rat(8, 10)) /\ c.count_high + c.count_medium >= 10
        THEN RMul(scaled, c.overall_calibration)
        ELSE scaled

C6_PureInArguments ==
    [][(/\ call.op = "calculate_dynamic_kelly"
        /\ call'.op = "calculate_dynamic_kelly"
        /\ ~IsNone(call.args.metrics) /\ ~IsNone(call.args.calibration)
        /\ call'.args = call.args)
       => call'.ret = call.ret]_vars

(***************************************************************************)
(* Sizing of a proposed pick (Spec).                                       *)
(***************************************************************************)
\* C5 (as the specification states it): whenever analyze_pick sizes a pick,
\* the Kelly fraction it passes to calculate_bet_sizing is
\* calculate_dynamic_kelly of the history the store holds at that moment.
C5_SizedWithDynamicKelly ==
    [][reco' # reco =>
        \E db_results \in get_all_results :
            reco'.result.kelly_fraction = calculate_dynamic_kelly(None, None, db_results)]_vars

(***************************************************************************)
(* Properties of the functions of kelly.py (SpecKelly).                    *)
(***************************************************************************)
\* The full Kelly fraction (b*p - q)/b of the estimated probability, from the
\* arguments of the call.
C7_FullKelly ==
    LET o == call.args.american_odds
        b == IF o > 0 THEN Rat(o, 100) ELSE Rat(100, -o)
        implied == IF o > 0 THEN Rat(100, o + 100) ELSE Rat(-o, 100 - o)
        edge == CASE call.args.confidence = "high" -> Rat(8, 100)
                  [] call.args.confidence = "medium" -> Rat(4, 100)
                  [] call.args.confidence = "low" -> Rat(0, 1)
        p == RMin(RAdd(implied, edge), Rat(95, 100))
    IN  RDiv(RSub(RMul(b, p), RSub(Int2Rat(1), p)), b)

C7_Adjusted == RMul(C7_FullKelly, call.args.kelly_fraction)

C7_IsExample(kelly_fraction) ==
    /\ call.op = "calculate_bet_sizing"
    /\ call.args.american_odds = 150
    /\ call.args.confidence = "high"
    /\ call.args.bankroll = Int2Rat(1000)
    /\ call.args.kelly_fraction = kelly_fraction
    /\ call.args.max_bet_pct = Rat(5, 100)
    /\ call.args.min_bet_pct = Rat(5, 1000)

\* C7: calculate_bet_sizing bets nothing when the adjusted fraction
\* fullKelly * kelly_fraction is <= 0 or below min_bet_pct, and otherwise bets
\* min(adjusted, max_bet_pct); the amount is bankroll times that percentage
\* rounded to 2 decimals. Odds +150, HIGH, fraction 0.25, caps 0.05/0.005 and
\* bankroll 1000 give 33.33; fraction 0.02 gives no bet.
C7_SizingPolicy ==
    (call.op = "calculate_bet_sizing" /\ call.args.american_odds # 0) =>
        /\ call.ret.exc = "none"
        /\ IF RLe(C7_Adjusted, Rat(0, 1)) \/ RLt(C7_Adjusted, call.args.min_bet_pct)
           THEN /\ ~call.ret.val.should_bet
                /\ call.ret.val.final_bet_pct = Rat(0, 1)
                /\ call.ret.val.bet_amount = Rat(0, 1)
           ELSE /\ call.ret.val.should_bet
                /\ call.ret.val.final_bet_pct =
                       Round(RMul(RMin(C7_Adjusted, call.args.max_bet_pct), Int2Rat(100)), 2)
                /\ call.ret.val.bet_amount =
                       Round(RMul(call.args.bankroll,
                                  RMin(C7_Adjusted, call.args.max_bet_pct)), 2)
        /\ C7_IsExample(Rat(25, 100)) =>
              (call.ret.val.should_bet /\ call.ret.val.bet_amount = Rat(3333, 100))
        /\ C7_IsExample(Rat(2, 100)) => ~call.ret.val.should_bet

\* The example of the specification: +150, HIGH, fraction 0.25 sized at 33.33.
C7_Witness ==
    /\ C7_IsExample(Rat(25, 100))
    /\ call.ret.exc = "none"
    /\ call.ret.val.should_bet
    /\ call.ret.val.bet_amount = Rat(3333, 100)

\* C8 (as the specification states it): with American odds 0,
\* implied_probability, decimal_odds_from_american and calculate_bet_sizing
\* fail with InvalidOddsError.
C8_ZeroOddsRejected ==
    (/\ call.op \in {"implied_probability", "decimal_odds_from_american",
                     "calculate_bet_sizing"}
     /\ call.args.american_odds = 0)
        => call.ret.exc = "InvalidOddsError"

C10_EstimateCapped ==
    call.op = "estimate_win_probability" =>
        LET o == call.args.american_odds
            implied == IF o > 0 THEN Rat(100, o + 100) ELSE Rat(-o, 100 - o)
            edge == CASE call.args.confidence = "high" -> Rat(8, 100)
                      [] call.args.confidence = "medium" -> Rat(4, 100)
                      [] call.args.confidence = "low" -> Rat(0, 1)
        IN  /\ call.ret.exc = "none"
            /\ call.ret.val = RMin(RAdd(implied, edge), Rat(95, 100))
            /\ RLe(call.ret.val, Rat(95, 100))

\* A heavy favourite at HIGH confidence, where the cap binds.
C10_Witness ==
    /\ call.op = "estimate_win_probability"
    /\ call.args.american_odds = -2000
    /\ call.args.confidence = "high"
    /\ call.ret.val = Rat(95, 100)

(***************************************************************************)
(* Properties of the derived metrics (SpecMetrics).                        *)
(***************************************************************************)
\* The rows a call read are newest first: the store returns them ordered by
\* game date, descending.
NewestFirst(rows) ==
    \A i, j \in DOMAIN rows : i < j => rows[i].game_date >= rows[j].game_date

\* The number of leading rows that share the result of the first row.
LeadingRun(rows) ==
    CHOOSE k \in 0..Len(rows) :
        /\ \A i \in 1..k : rows[i].result = rows[1].result
        /\ k = Len(rows) \/ rows[k + 1].result # rows[1].result

\* C11: current_streak is the number of consecutive rows, from the most
\* recent by game date, that share the result of the most recent row, up to
\* the first different result; positive for a WIN run, negative for a LOSS
\* run and 0 when the most recent row is a PUSH (or the history is empty).
C11_Streak ==
    call.op = "get_performance_metrics" =>
        /\ NewestFirst(call.db)
        /\ call.ret.current_streak =
              IF call.db = <<>> THEN 0
              ELSE CASE call.db[1].result = "WIN" -> LeadingRun(call.db)
                     [] call.db[1].result = "LOSS" -> -LeadingRun(call.db)
                     [] OTHER -> 0

\* The example: newest to oldest WIN, WIN, WIN, LOSS, WIN gives +3.
C11_Witness ==
    /\ call.op = "get_performance_metrics"
    /\ [i \in DOMAIN call.db |-> call.db[i].result] = <<"WIN", "WIN", "WIN", "LOSS", "WIN">>
    /\ call.ret.current_streak = 3

\* The rows of a list that carry a result.
SettledRows(rows) == SelectSeq(rows, LAMBDA r : r.result \in {"WIN", "LOSS", "PUSH"})

\* C12 (as the specification states it): the metrics and the calibration are
\* those of the settled bets alone; a saved pick without a result changes
\* none of them.
C12_SettledBetsOnly ==
    call.op = "get_bankroll_context" =>
        /\ \A i \in DOMAIN call.db : call.db[i].result \in {"WIN", "LOSS", "PUSH"}
        /\ call.ret.metrics = get_performance_metrics(SettledRows(call.db))
        /\ call.ret.calibration = get_confidence_calibration(SettledRows(call.db))

\* The bankroll after the k oldest rows of a newest-first list.
RECURSIVE WalkValue(_, _)
WalkValue(rows, k) ==
    IF k = 0 THEN settings.bankroll
    ELSE CHOOSE v \in {FAdd(before, rows[Len(rows) + 1 - k].profit_loss) :
                          before \in {WalkValue(rows, k - 1)}} : TRUE

\* The sum of the profit_loss of the first k rows of a list, in list order.
RECURSIVE ProfitOfFirst(_, _)
ProfitOfFirst(rows, k) ==
    IF k = 0 THEN Zero
    ELSE CHOOSE v \in {FAdd(before, rows[k].profit_loss) :
                          before \in {ProfitOfFirst(rows, k - 1)}} : TRUE

\* C13: current_bankroll is the initial bankroll plus the sum of all
\* profit_loss values, and peak_bankroll is the maximum of the initial
\* bankroll and of every prefix sum of the walk from the oldest row to the
\* newest; the walk +100, -50, +20, -80 from 1000 peaks at 1100 and ends at 990.
C13_BankrollWalk ==
    call.op = "get_performance_metrics" =>
        /\ call.ret.current_bankroll =
              FAdd(settings.bankroll, ProfitOfFirst(call.db, Len(call.db)))
        /\ \A k \in 0..Len(call.db) : RGe(call.ret.peak_bankroll, WalkValue(call.db, k))
        /\ \E k \in 0..Len(call.db) : call.ret.peak_bankroll = WalkValue(call.db, k)
        /\ PeakWalk(<<[profit_loss |-> Int2Rat(100)], [profit_loss |-> Int2Rat(-50)],
                      [profit_loss |-> Int2Rat(20)], [profit_loss |-> Int2Rat(-80)]>>,
                    Int2Rat(1000), Int2Rat(1000)) = Int2Rat(1100)
        /\ FAdd(Int2Rat(1000), SumRat(<<Int2Rat(-80), Int2Rat(20), Int2Rat(-50),
                                        Int2Rat(100)>>)) = Int2Rat(990)

\* A walk +150, -50, +30, -80, -20 from 1000: peak 1150 after the first bet,
\* 1030 at the end.
C13_Witness ==
    /\ call.op = "get_performance_metrics"
    /\ Len(call.db) = 5
    /\ call.ret.peak_bankroll = Int2Rat(1150)
    /\ call.ret.current_bankroll = Int2Rat(1030)

\* C14 (as the specification states it): with a positive initial bankroll,
\* peak_bankroll is at least current_bankroll and at least the initial
\* bankroll, and drawdown_pct is (peak - current)/peak, never negative (and 0
\* should the peak not be positive).
C14_DrawdownNonNegative ==
    (call.op = "get_performance_metrics" /\ RGt(settings.bankroll, Rat(0, 1))) =>
        /\ RGe(call.ret.peak_bankroll, call.ret.current_bankroll)
        /\ RGe(call.ret.peak_bankroll, settings.bankroll)
        /\ RGe(call.ret.drawdown_pct, Rat(0, 1))
        /\ IF RGt(call.ret.peak_bankroll, Rat(0, 1))
           THEN call.ret.drawdown_pct =
                    RDiv(RSub(call.ret.peak_bankroll, call.ret.current_bankroll),
                         call.ret.peak_bankroll)
           ELSE call.ret.drawdown_pct = Rat(0, 1)

\* A returned float: a fraction with a denominator.
IsValue(x) == x.d > 0

\* The first n rows of a list, or all of them when it has fewer.
Window(rows, n) == 1..(IF Len(rows) < n THEN Len(rows) ELSE n)

WinsIn(rows, n) == Cardinality({i \in Window(rows, n) : rows[i].result = "WIN"})

NothingWagered(rows, n) == \A i \in Window(rows, n) : rows[i].bet_amount = Zero

\* C15: on every history the four functions return a value; a window of
\* 10, 20 or 50 takes all rows when fewer exist, an ROI is 0 when nothing was
\* wagered, a tier without samples has ratio 1.0, and the empty history gives
\* current = peak = initial bankroll, drawdown 0, streak 0, every calibration
\* ratio 1.0 and risk NORMAL.
C15_GracefulDegradation ==
    /\ call.op = "get_performance_metrics" =>
          /\ \A f \in {"win_rate_l10", "win_rate_l20", "win_rate_l50", "win_rate_all",
                       "roi_l10", "roi_l20", "roi_all", "total_wagered", "total_pl",
                       "peak_bankroll", "current_bankroll", "drawdown_pct"} :
                IsValue(call.ret[f])
          /\ \A w \in {<<10, "win_rate_l10">>, <<20, "win_rate_l20">>, <<50, "win_rate_l50">>} :
                call.ret[w[2]] = IF call.db = <<>> THEN Zero
                                 ELSE Rat(WinsIn(call.db, w[1]),
                                          Cardinality(Window(call.db, w[1])))
          /\ \A w \in {<<10, "roi_l10">>, <<20, "roi_l20">>, <<Len(call.db), "roi_all">>} :
                NothingWagered(call.db, w[1]) => call.ret[w[2]] = Zero
          /\ call.db = <<>> =>
                /\ call.ret.current_bankroll = settings.bankroll
                /\ call.ret.peak_bankroll = settings.bankroll
                /\ call.ret.drawdown_pct = Zero
                /\ call.ret.current_streak = 0
    /\ call.op = "get_confidence_calibration" =>
          /\ \A f \in {"actual_high", "actual_medium", "actual_low", "calibration_high",
                       "calibration_medium", "calibration_low", "overall_calibration"} :
                IsValue(call.ret[f])
          /\ \A t \in {<<"high", "calibration_high">>, <<"medium", "calibration_medium">>,
                       <<"low", "calibration_low">>} :
                (\A i \in DOMAIN call.db : call.db[i].confidence # t[1]) =>
                    call.ret[t[2]] = One
          /\ call.db = <<>> => call.ret.overall_calibration = One
    /\ call.op = "get_risk_assessment" =>
          /\ call.ret \in RiskLevel
          /\ call.db = <<>> => call.ret = "normal"
    /\ call.op = "calculate_dynamic_kelly" =>
          /\ IsValue(call.ret)
          /\ RGt(call.ret, Zero)

\* Two bets of stake 0, fewer than any window: the rates are over both rows
\* and every ROI is 0.
C15_Witness ==
    /\ call.op = "get_performance_metrics"
    /\ Len(call.db) = 2
    /\ call.ret.total_wagered = Zero
    /\ call.ret.win_rate_l10 = Rat(1, 2)
    /\ call.ret.win_rate_l50 = Rat(1, 2)
    /\ call.ret.roi_l10 = Zero
    /\ call.ret.roi_all = Zero

\* The rows of a tier and the wins among them.
TierRows(rows, tier) == {i \in DOMAIN rows : rows[i].confidence = tier}
TierWins(rows, tier) == {i \in TierRows(rows, tier) : rows[i].result = "WIN"}

\* Expected win rates: HIGH 0.70, MEDIUM 0.55, LOW 0.35.
ExpectedWinRate(tier) ==
    CASE tier = "high" -> Rat(70, 100)
      [] tier = "medium" -> Rat(55, 100)
      [] tier = "low" -> Rat(35, 100)

\* The ratio the specification gives a tier of count bets, wins of them won.
TierRatio(tier, wins, count) ==
    IF count < 5 THEN One
    ELSE IF RLe(RDiv(Rat(wins, count), ExpectedWinRate(tier)), Rat(3, 2))
         THEN RDiv(Rat(wins, count), ExpectedWinRate(tier))
         ELSE Rat(3, 2)

\* C16: each tier's calibration ratio is 1.0 with fewer than 5 bets of the
\* tier, whatever its win rate, and min(observed/expected, 1.5) with 5 or
\* more; every ratio lies in [0, 1.5].
C16_TierCalibration ==
    call.op = "get_confidence_calibration" =>
        \A t \in {<<"high", "count_high", "actual_high", "calibration_high">>,
                  <<"medium", "count_medium", "actual_medium", "calibration_medium">>,
                  <<"low", "count_low", "actual_low", "calibration_low">>} :
            /\ call.ret[t[2]] = Cardinality(TierRows(call.db, t[1]))
            /\ call.ret[t[4]] = TierRatio(t[1], Cardinality(TierWins(call.db, t[1])),
                                          Cardinality(TierRows(call.db, t[1])))
            /\ RGe(call.ret[t[4]], Zero)
            /\ RLe(call.ret[t[4]], Rat(3, 2))

\* Five LOW bets, four of them won: 0.8/0.35 is capped at 1.5, while the
\* empty HIGH tier stays at 1.0.
C16_Witness ==
    /\ call.op = "get_confidence_calibration"
    /\ call.ret.count_low = 5
    /\ call.ret.actual_low = Rat(4, 5)
    /\ call.ret.calibration_low = Rat(3, 2)
    /\ call.ret.count_high = 0
    /\ call.ret.calibration_high = One

\* A list without its LOW rows.
WithoutLow(rows) == SelectSeq(rows, LAMBDA r : r.confidence # "low")

\* The sample-weighted average of the HIGH and MEDIUM ratios of a list.
WeightedHighMedium(rows) ==
    LET countHIGH == Cardinality(TierRows(rows, "high"))
        countMEDIUM == Cardinality(TierRows(rows, "medium"))
        calibHIGH == TierRatio("high", Cardinality(TierWins(rows, "high")), countHIGH)
        calibMEDIUM == TierRatio("medium", Cardinality(TierWins(rows, "medium")),
                                 countMEDIUM)
    IN  IF countHIGH + countMEDIUM = 0 THEN One
        ELSE Rat(calibHIGH.n * calibMEDIUM.d * countHIGH
                    + calibMEDIUM.n * calibHIGH.d * countMEDIUM,
                 calibHIGH.d * calibMEDIUM.d * (countHIGH + countMEDIUM))

\* C17: overall_calibration is (calibHIGH*countHIGH + calibMEDIUM*countMEDIUM)
\* / (countHIGH + countMEDIUM), and 1.0 when that denominator is 0; the LOW
\* rows do not enter it: the list without them has the same overall score.
C17_OverallCalibration ==
    call.op = "get_confidence_calibration" =>
        /\ call.ret.overall_calibration = WeightedHighMedium(call.db)
        /\ call.ret.overall_calibration =
              get_confidence_calibration(WithoutLow(call.db)).overall_calibration

\* Five lost LOW bets next to two won HIGH bets: the LOW ratio is 0 and the
\* overall score is still 1.0.
C17_Witness ==
    /\ call.op = "get_confidence_calibration"
    /\ call.ret.count_low = 5
    /\ call.ret.calibration_low = Zero
    /\ call.ret.count_high = 2
    /\ call.ret.overall_calibration = One

(***************************************************************************)
(* Properties of settlement and of the engine's frame (SpecSettle).        *)
(***************************************************************************)
EngineOps ==
    {"get_performance_metrics", "get_confidence_calibration", "get_risk_assessment",
     "calculate_dynamic_kelly", "get_bankroll_context"}

\* C19: a call of get_performance_metrics, get_confidence_calibration,
\* get_risk_assessment, calculate_dynamic_kelly or get_bankroll_context
\* leaves the picks table, the results table, the configured bankroll and
\* the manager's initial_bankroll as they were; a call of
\* calculate_bet_sizing changes nothing but the value it returns.
C19_ReadOnly ==
    [][/\ (call' # call /\ call'.op \in EngineOps) =>
             /\ picks' = picks
             /\ results' = results
             /\ settings'.bankroll = settings.bankroll
             /\ initial_bankroll' = initial_bankroll
       /\ (call' # call /\ call'.op = "calculate_bet_sizing") =>
             UNCHANGED <<picks, results, settings, args, reco, runs>>]_vars

\* The manager has reported on a settled ledger: the bankroll it derived
\* differs from the configured one, which still is 1000.
C19_Witness ==
    /\ call.op = "get_bankroll_context"
    /\ results # <<>>
    /\ call.ret.current_bankroll # settings.bankroll
    /\ settings.bankroll = Int2Rat(1000)
    /\ initial_bankroll = Int2Rat(1000)

\* The pick a result row belongs to.
PickOf(row) == picks[row.pick_id]

\* C20: every stored result of a pick with bet_amount >= 0 and non-zero odds
\* is the only result of its pick, is WIN, LOSS or PUSH, and agrees in sign
\* with its profit_loss: WIN >= 0, LOSS minus the bet amount (<= 0), PUSH 0.
C20_ResultSign ==
    \A k \in DOMAIN results :
        (RGe(PickOf(results[k]).bet_amount, Zero) /\ PickOf(results[k]).odds # 0) =>
            /\ \A j \in DOMAIN results : results[j].pick_id = results[k].pick_id => j = k
            /\ results[k].result \in {"WIN", "LOSS", "PUSH"}
            /\ results[k].result = "WIN" => RGe(results[k].profit_loss, Zero)
            /\ results[k].result = "LOSS" =>
                  /\ results[k].profit_loss = RNeg(PickOf(results[k]).bet_amount)
                  /\ RLe(results[k].profit_loss, Zero)
            /\ results[k].result = "PUSH" => results[k].profit_loss = Zero

\* fetch_results has settled a tied MONEYLINE game as a LOSS of the stake and
\* a covered SPREAD pick at -110 as a WIN of 66.67 * 100/110.
C20_Witness ==
    /\ Len(results) = 2
    /\ \E k \in DOMAIN results :
          /\ PickOf(results[k]).bet_type = "MONEYLINE"
          /\ results[k].home_score = results[k].away_score
          /\ results[k].result = "LOSS"
          /\ results[k].profit_loss = Rat(-6667, 100)
    /\ \E k \in DOMAIN results :
          /\ PickOf(results[k]).bet_type = "SPREAD"
          /\ PickOf(results[k]).odds < 0
          /\ results[k].result = "WIN"
          /\ results[k].profit_loss = Rat(6667, 110)

(***************************************************************************)
(* The life of the ledger: picks are saved by main, and settled by         *)
(* main.update_results or by scripts/fetch_results.py, in any order.       *)
(***************************************************************************)
NextLedger ==
    \/ NextAnalyze
    \/ NextSettle
    \/ NextFetch

SpecLedger == InitSettle /\ [][NextLedger]_vars

(***************************************************************************)
(* Properties of the ledger (SpecLedger).                                  *)
(***************************************************************************)
StoredRows(rtbl) == {rtbl[k] : k \in DOMAIN rtbl}

\* C21: the settled history is append-only.  Whatever main saves and
\* whichever of the two settlement procedures runs, every stored result row
\* is still stored, unchanged, after the step; a row that is new after the
\* step belongs to a pick that had no result before it and carries the
\* scores of a Final game (the answers that are not Final carry none); and
\* the results table never holds two rows of one pick.
C21_AppendOnly ==
    [][/\ StoredRows(results) \subseteq StoredRows(results')
       /\ \A row \in StoredRows(results') \ StoredRows(results) :
             /\ row.pick_id \in PendingIds(picks, results)
             /\ row.home_score > 0 /\ row.away_score > 0
       /\ \A j1, j2 \in DOMAIN results' :
             results'[j1].pick_id = results'[j2].pick_id => j1 = j2]_vars

\* Two picks settled, the later pick first, and a third pick saved by main.
C21_Witness ==
    /\ Len(results) = 2
    /\ results[1].pick_id > results[2].pick_id
    /\ reco # Idle /\ reco.pick_id = 3
    /\ 3 \in PendingIds(picks, results)

(***************************************************************************)
(* src/src/stats/ratings.py and src/src/stats/simulator.py.  The scores    *)
(* are small decimals and are carried exactly; the outcome ratios are      *)
(* rounded as floats.                                                      *)
(***************************************************************************)
TeamRatings(offensive_rating, defensive_rating, pace) ==
    [offensive_rating |-> offensive_rating, defensive_rating |-> defensive_rating,
     pace |-> pace]

get_matchup_analysis(underdog_ratings, favorite_ratings, is_underdog_home) ==
    LET expected_pace == RDiv(RAdd(underdog_ratings.pace, favorite_ratings.pace), Int2Rat(2))
        underdog_off_vs_fav_def ==
            RDiv(RAdd(underdog_ratings.offensive_rating, favorite_ratings.defensive_rating),
                 Int2Rat(2))
        favorite_off_vs_und_def ==
            RDiv(RAdd(favorite_ratings.offensive_rating, underdog_ratings.defensive_rating),
                 Int2Rat(2))
        home_advantage == Int2Rat(3)
        underdog_adj == IF is_underdog_home THEN RDiv(home_advantage, Int2Rat(2))
                        ELSE RDiv(RNeg(home_advantage), Int2Rat(2))
        favorite_adj == IF is_underdog_home THEN RDiv(RNeg(home_advantage), Int2Rat(2))
                        ELSE RDiv(home_advantage, Int2Rat(2))
        underdog_expected ==
            RAdd(RDiv(RMul(underdog_off_vs_fav_def, expected_pace), Int2Rat(100)), underdog_adj)
        favorite_expected ==
            RAdd(RDiv(RMul(favorite_off_vs_und_def, expected_pace), Int2Rat(100)), favorite_adj)
    IN  [expected_pace |-> expected_pace,
         underdog_expected_score |-> underdog_expected,
         favorite_expected_score |-> favorite_expected,
         expected_margin |-> RSub(favorite_expected, underdog_expected),
         pace_differential |->
            IF RGe(underdog_ratings.pace, favorite_ratings.pace)
            THEN RSub(underdog_ratings.pace, favorite_ratings.pace)
            ELSE RSub(favorite_ratings.pace, underdog_ratings.pace)]

SCORE_STD == Int2Rat(12)

\* Lines 90-95: random.gauss(mean, SCORE_STD) is mean + z * SCORE_STD for the
\* deviate z that was drawn; the score is then floored at 70.
SampledScore(mean, z) == RMax(Int2Rat(70), RAdd(mean, RMul(z, SCORE_STD)))

\* Lines 97-110 over the sampled scores: the margins and the three counters.
Margins(underdog_scores, favorite_scores) ==
    [i \in DOMAIN underdog_scores |-> RSub(favorite_scores[i], underdog_scores[i])]

UnderdogWins(underdog_scores, favorite_scores) ==
    Cardinality({i \in DOMAIN underdog_scores : RGt(underdog_scores[i], favorite_scores[i])})

\* The counter of line 108 with "<=" for "<": a push also counts as a cover.
Covers_counting_pushes(margins, spread) ==
    Cardinality({i \in DOMAIN margins : RLe(RSub(margins[i], spread), Zero)})

Covers(margins, spread) ==
    Cardinality({i \in DOMAIN margins : RLt(RSub(margins[i], spread), Zero)})

Pushes(margins, spread) ==
    Cardinality({i \in DOMAIN margins : RSub(margins[i], spread) = Zero})

\* sorted(margins).
RECURSIVE InsertAsc(_, _)
InsertAsc(sorted, m) ==
    IF sorted = <<>> THEN <<m>>
    ELSE IF RLe(sorted[Len(sorted)], m) THEN Append(sorted, m)
         ELSE Append(InsertAsc(SubSeq(sorted, 1, Len(sorted) - 1), m), sorted[Len(sorted)])

RECURSIVE SortedAsc(_)
SortedAsc(s) ==
    IF s = <<>> THEN <<>>
    ELSE InsertAsc(SortedAsc(SubSeq(s, 1, Len(s) - 1)), s[Len(s)])

RECURSIVE SumExact(_)
SumExact(s) == IF s = <<>> THEN Zero ELSE RAdd(s[1], SumExact(Tail(s)))

\* Lines 123-127: the sample variance of the margins; margin_std is its
\* square root and stays 0.0 for a single simulation.
MarginVariance(margins, mean_margin) ==
    IF Len(margins) > 1
    THEN RDiv(SumExact([i \in DOMAIN margins |->
                           RMul(RSub(margins[i], mean_margin), RSub(margins[i], mean_margin))]),
              Int2Rat(Len(margins) - 1))
    ELSE Zero

\* Lines 112-135: the SimulationResult built from the sampled scores.
SimulationResult(simulations, underdog_scores, favorite_scores, margins, spread) ==
    CHOOSE result \in
        {[simulations |-> simulations,
          underdog_win_pct |-> underdog_win_pct,
          favorite_win_pct |-> FAdd(One, RNeg(underdog_win_pct)),
          underdog_cover_pct |-> Float(Rat(Covers(margins, spread), simulations)),
          push_pct |-> Float(Rat(Pushes(margins, spread), simulations)),
          underdog_avg_score |-> RDiv(SumExact(underdog_scores), Int2Rat(simulations)),
          favorite_avg_score |-> RDiv(SumExact(favorite_scores), Int2Rat(simulations)),
          avg_margin |-> avg_margin,
          margin_variance |-> MarginVariance(margins, avg_margin),
          margin_10th |-> sorted_margins[((simulations * 1) \div 10) + 1],
          margin_90th |-> sorted_margins[((simulations * 9) \div 10) + 1]] :
            underdog_win_pct \in
                {Float(Rat(UnderdogWins(underdog_scores, favorite_scores), simulations))},
            avg_margin \in {RDiv(SumExact(margins), Int2Rat(simulations))},
            sorted_margins \in {SortedAsc(margins)}} : TRUE

\* MonteCarloSimulator(simulations).simulate_game; deviates[i] is the pair of
\* normal deviates drawn in round i, the underdog's first.
simulate_game(simulations, underdog_ratings, favorite_ratings, spread, is_underdog_home, deviates) ==
    CHOOSE result \in
        {SimulationResult(simulations, underdog_scores, favorite_scores,
                          Margins(underdog_scores, favorite_scores), spread) :
            <<underdog_scores, favorite_scores>> \in
                {<<[i \in 1..simulations |->
                       SampledScore(matchup.underdog_expected_score, deviates[i][1])],
                   [i \in 1..simulations |->
                       SampledScore(matchup.favorite_expected_score, deviates[i][2])]>> :
                    matchup \in {get_matchup_analysis(underdog_ratings, favorite_ratings,
                                                      is_underdog_home)}}} : TRUE

(***************************************************************************)
(* The simulator on its own (SpecSim): a game is simulated with whatever   *)
(* deviates the generator draws.                                           *)
(***************************************************************************)
\* Rounds of one simulation.
MaxSimulations == 3

\* Normal deviates a round may draw: the mean, and four deviations below it.
DeviateSet == {Int2Rat(-4), Zero}
SpreadSet == {Zero, Int2Rat(3), Rat(11, 2)}
RatingPairs ==
    {<<TeamRatings(Int2Rat(100), Int2Rat(100), Int2Rat(100)),
       TeamRatings(Int2Rat(100), Int2Rat(100), Int2Rat(100))>>,
     <<TeamRatings(Int2Rat(104), Int2Rat(100), Int2Rat(110)),
       TeamRatings(Int2Rat(100), Int2Rat(100), Int2Rat(100))>>}

SimulateGame ==
    /\ "simulations" \in DOMAIN args
    /\ \E deviates \in [1..args.simulations -> DeviateSet \X DeviateSet] :
          call' = [op |-> "simulate_game", args |-> args, deviates |-> deviates,
                   ret |-> simulate_game(args.simulations, args.underdog_ratings,
                                         args.favorite_ratings, args.spread,
                                         args.is_underdog_home, deviates)]
    /\ UNCHANGED <<picks, results, settings, args, reco, runs>>

InitSim ==
    /\ settings = DefaultSettings
    /\ picks = <<>>
    /\ results = <<>>
    /\ \E simulations \in 1..MaxSimulations, spread \in SpreadSet,
          ratings \in RatingPairs, is_underdog_home \in BOOLEAN :
          args = [simulations |-> simulations, spread |-> spread,
                  underdog_ratings |-> ratings[1], favorite_ratings |-> ratings[2],
                  is_underdog_home |-> is_underdog_home]
    /\ call = Idle
    /\ reco = Idle
    /\ runs = 0

NextSim == SimulateGame

SpecSim == InitSim /\ [][NextSim]_vars

(***************************************************************************)
(* Properties of the simulator (SpecSim).                                  *)
(***************************************************************************)
InUnitInterval(x) == RGe(x, Zero) /\ RLe(x, One)

\* C22: whatever scores are sampled, simulate_game returns underdog_win_pct
\* and underdog_cover_pct between 0 and 1, favorite_win_pct is 1 minus
\* underdog_win_pct, and underdog_cover_pct + push_pct, added as floats, is
\* at most 1.
C22_SimulationRatios ==
    call.op = "simulate_game" =>
        /\ InUnitInterval(call.ret.underdog_win_pct)
        /\ InUnitInterval(call.ret.underdog_cover_pct)
        /\ InUnitInterval(call.ret.favorite_win_pct)
        /\ call.ret.favorite_win_pct = FAdd(One, RNeg(call.ret.underdog_win_pct))
        /\ RLe(FAdd(call.ret.underdog_cover_pct, call.ret.push_pct), One)

\* Three rounds of which one is a push, one a cover and one neither; the
\* underdog won a round.
C22_Witness ==
    /\ call.op = "simulate_game"
    /\ call.args.simulations = 3
    /\ call.ret.push_pct = Float(Rat(1, 3))
    /\ call.ret.underdog_cover_pct = Float(Rat(1, 3))
    /\ RGt(call.ret.underdog_win_pct, Zero)

(***************************************************************************)
(* The picks table under saves (SpecSave): Database.save_pick is called    *)
(* with any PickRecord, and main saves what it analysed.                   *)
(***************************************************************************)
\* Rows the picks table may hold before direct saves stop adding to it.
MaxPicks == 2

SavedStakes == {Zero, Int2Rat(20)}

\* Database.save_pick(rec).
SavePick(rec) ==
    /\ Len(save_pick(picks, rec).table) <= MaxPicks
    /\ call' = [op |-> "save_pick", args |-> rec, ret |-> save_pick(picks, rec).id]
    /\ picks' = save_pick(picks, rec).table
    /\ UNCHANGED <<results, settings, args, reco, runs>>

NextSavePick ==
    \E game_id \in KnownGames \cup {Len(picks) + 1}, bet_type \in BetTypes,
       bet_amount \in SavedStakes :
       \E game_date \in IF game_id \in KnownGames THEN {DateOfGame(game_id)}
                        ELSE {LastDate + 1},
          underdog \in {Underdog(game_id), "HOME"} :
          SavePick(PickRecord(game_id, game_date, underdog, bet_type, PickLine(bet_type),
                              PickOdds(bet_type), "high",
                              [bet_amount |-> bet_amount,
                               should_bet |-> RGt(bet_amount, Zero)]))

NextSave ==
    \/ NextSavePick
    \/ NextAnalyze

SpecSave == InitSettle /\ [][NextSave]_vars

(***************************************************************************)
(* Properties of the picks table (SpecSave).                               *)
(***************************************************************************)
SameKey(a, b) ==
    a.game_id = b.game_id /\ a.bet_type = b.bet_type /\ a.underdog = b.underdog

OneRowPerKey(tbl) ==
    \A i, j \in DOMAIN tbl : SameKey(tbl[i], tbl[j]) => i = j

KellyBits == 9

\* The positive fraction n/d rounded to the given number of significant bits.
FloatRoundPosAt(bits, n, d) ==
    CHOOSE r \in
        {IF shift >= 0 THEN RatV(NearestEven(sc.n, sc.d), Pow2(shift))
         ELSE [n |-> NearestEven(sc.n, sc.d) * Pow2(-shift), d |-> 1] :
            <<shift, sc>> \in {<<k, Scaled(n, d, k)>> : k \in {bits - BitsOf(n, d)}}} :
        TRUE

\* The float of KellyBits significant bits nearest to a, ties to even.
Fl(a) ==
    CHOOSE r \in
        {IF x.n = 0 \/ (Abs(x.n) < Pow2(KellyBits) /\ IsPow2(x.d)) THEN x
         ELSE CHOOSE s \in
                {[n |-> (IF x.n < 0 THEN -1 ELSE 1) * y.n, d |-> y.d] :
                    y \in {FloatRoundPosAt(KellyBits, Abs(x.n), x.d)}} : TRUE :
            x \in {a}} : TRUE

\* a + b and a - b on floats.
FlAdd(a, b) == CHOOSE r \in {Fl(RAddV(x, y)) : x \in {a}, y \in {b}} : TRUE
FlSub(a, b) == CHOOSE r \in {Fl(RAddV(x, [n |-> -y.n, d |-> y.d])) : x \in {a}, y \in {b}} : TRUE

\* The float m * 2^(-e) for an integer m, as a fraction.
Dyadic(m, e) == IF e >= 0 THEN RatV(m, Pow2(e)) ELSE [n |-> m * Pow2(-e), d |-> 1]

\* The exponent e of a denominator 2^e.
Log2(d) == BitLength(d) - 1

\* The integer m cut to KellyBits significant bits: <<q, s>> with m rounded
\* to q * 2^s, ties to even.
CutBits(m) ==
    CHOOSE c \in {<<(IF m < 0 THEN -1 ELSE 1) * NearestEven(Abs(m), Pow2(s)), s>> :
                    s \in {IF BitLength(Abs(m)) > KellyBits
                           THEN BitLength(Abs(m)) - KellyBits ELSE 0}} : TRUE

\* a * b on floats: the product of the numerators is cut to KellyBits bits
\* and the exponents are added.
FlMul(a, b) ==
    CHOOSE r \in {Dyadic(c[1], Log2(x.d) + Log2(y.d) - c[2]) :
                    <<x, y, c>> \in {<<u, v, CutBits(u.n * v.n)>> : u \in {a}, v \in {b}}} : TRUE

\* a / b on floats: the quotient of the numerators is rounded to KellyBits
\* bits and the exponents are subtracted.
FlDiv(a, b) ==
    CHOOSE r \in {Dyadic(q.n, Log2(q.d) + Log2(x.d) - Log2(y.d)) :
                    <<x, y, q>> \in {<<u, v, Fl([n |-> (IF v.n < 0 THEN -u.n ELSE u.n),
                                                 d |-> Abs(v.n)])>> :
                                        u \in {a}, v \in {b}}} : TRUE

\* round(x, ndigits) of a float: the float nearest to the rounded decimal.
FlRound(x, ndigits) == Fl(Round(x, ndigits))

\* Lines 22-28; the odds are an int, the quotient is a float.
implied_probability_float(american_odds) ==
    IF american_odds > 0
    THEN FlDiv(Int2Rat(100), Int2Rat(american_odds + 100))
    ELSE FlDiv(Int2Rat(Abs(american_odds)), Int2Rat(Abs(american_odds) + 100))

\* Lines 40-43, for odds other than 0.
decimal_odds_float(american_odds) ==
    IF american_odds > 0
    THEN FlAdd(FlDiv(Int2Rat(american_odds), Int2Rat(100)), One)
    ELSE FlAdd(FlDiv(Int2Rat(100), Int2Rat(Abs(american_odds))), One)

\* Lines 64-71.
calculate_kelly_float(american_odds, win_probability) ==
    CHOOSE kelly \in
        {FlDiv(FlSub(FlMul(b, p), q), b) :
            <<b, p, q>> \in {<<FlSub(decimal_odds_float(american_odds), One), w,
                               FlSub(One, w)>> : w \in {win_probability}}} : TRUE

\* Lines 86-92.
estimate_win_probability_float(american_odds, confidence) ==
    RMin(FlAdd(implied_probability_float(american_odds), Fl(CONFIDENCE_EDGE(confidence))),
         Fl(PROB_CAP))

\* Lines 145-162 on floats.
SizingDictFloat(implied_prob, estimated_prob, full_kelly, adjusted_kelly, caps, bankroll, b) ==
    CHOOSE out \in
        {[implied_prob |-> FlRound(implied_prob, 4),
          estimated_prob |-> FlRound(estimated_prob, 4),
          full_kelly_pct |-> FlRound(FlMul(full_kelly, Int2Rat(100)), 2),
          adjusted_kelly_pct |-> FlRound(FlMul(adjusted_kelly, Int2Rat(100)), 2),
          final_bet_pct |-> FlRound(FlMul(caps.final_bet_pct, Int2Rat(100)), 2),
          bet_amount |-> bet_amount,
          expected_value |->
              FlRound(FlSub(FlMul(estimated_prob, FlMul(bet_amount, b)),
                            FlMul(FlSub(One, estimated_prob), bet_amount)), 2),
          should_bet |-> caps.should_bet] :
            bet_amount \in {FlRound(FlMul(bankroll, caps.final_bet_pct), 2)}} : TRUE

\* calculate_bet_sizing, lines 124-162, on floats.
calculate_bet_sizing_float(american_odds, confidence, bankroll, kelly_fraction, max_bet_pct, min_bet_pct) ==
    IF american_odds = 0 THEN [exc |-> "ZeroDivisionError", val |-> NoSizing]
    ELSE CHOOSE out \in
        {Return(SizingDictFloat(implied_prob, estimated_prob, full_kelly, adjusted_kelly,
                                SizingCaps(adjusted_kelly, Fl(max_bet_pct), Fl(min_bet_pct)),
                                Fl(bankroll),
                                FlSub(decimal_odds_float(american_odds), One))) :
            <<implied_prob, estimated_prob, full_kelly, adjusted_kelly>> \in
                {<<i, e, k, FlMul(k, Fl(kelly_fraction))>> :
                    <<i, e, k>> \in
                        {<<implied_probability_float(american_odds), p,
                           calculate_kelly_float(american_odds, p)>> :
                            p \in {estimate_win_probability_float(american_odds,
                                                                  confidence)}}}} : TRUE

(***************************************************************************)
(* calculate_bet_sizing under float arithmetic (SpecFloat).                *)
(***************************************************************************)
FloatOddsSet == {0, 100, 150, 600, -110, -300, -2000}
FloatBankrollSet == {Zero, Int2Rat(1000), Int2Rat(1900)}
FloatKellyFractionSet == {Rat(15, 100), One, Int2Rat(100)}
FloatMinBetPctSet == {Rat(5, 1000), Rat(1, 100000)}

CalculateBetSizingFloat ==
    /\ call' = [op |-> "calculate_bet_sizing", args |-> args,
                ret |-> calculate_bet_sizing_float(args.american_odds, args.confidence,
                                                   args.bankroll, args.kelly_fraction,
                                                   args.max_bet_pct, args.min_bet_pct)]
    /\ UNCHANGED <<picks, results, settings, args, reco, runs>>

InitFloat ==
    /\ settings = DefaultSettings
    /\ picks = <<>>
    /\ results = <<>>
    /\ args \in [american_odds : FloatOddsSet, confidence : Confidence,
                 bankroll : FloatBankrollSet, kelly_fraction : FloatKellyFractionSet,
                 max_bet_pct : MaxBetPctSet, min_bet_pct : FloatMinBetPctSet]
    /\ call = Idle
    /\ reco = Idle
    /\ runs = 0

NextFloat == CalculateBetSizingFloat

SpecFloat == InitFloat /\ [][NextFloat]_vars

(***************************************************************************)
(* Properties of the stake (SpecKelly, SpecFloat).                         *)
(***************************************************************************)
\* C24: a LOW-confidence pick is never bet.  For non-zero odds, any
\* bankroll, a Kelly fraction above 0 and a min_bet_pct above 0,
\* calculate_bet_sizing with confidence LOW returns should_bet false and
\* bet_amount 0, its estimated probability being at most the implied one.
C24_LowNeverBet ==
    (/\ call.op = "calculate_bet_sizing"
     /\ call.args.american_odds # 0
     /\ call.args.confidence = "low"
     /\ RGt(call.args.kelly_fraction, Zero)
     /\ RGt(call.args.min_bet_pct, Zero)) =>
        /\ call.ret.exc = "none"
        /\ RLe(call.ret.val.estimated_prob, call.ret.val.implied_prob)
        /\ ~ call.ret.val.should_bet
        /\ call.ret.val.bet_amount = Zero

\* The returned percentage of a fraction of the bankroll: round(pct * 100, 2).
AsPercent(pct) == Round(RMul(pct, Int2Rat(100)), 2)

NothingStaked ==
    /\ call.ret.val.final_bet_pct = Zero
    /\ call.ret.val.bet_amount = Zero
    /\ call.ret.val.expected_value = Zero

C30_NonNegativeExpectedValue ==
    (/\ call.op = "calculate_bet_sizing"
     /\ call.args.american_odds # 0
     /\ RGe(call.args.bankroll, Zero)
     /\ RGt(call.args.kelly_fraction, Zero)
     /\ call.ret.exc = "none"
     /\ call.ret.val.should_bet) =>
        RGe(call.ret.val.expected_value, Zero)

(***************************************************************************)
(* Properties of the metrics over a growing ledger (Spec, SpecSettle).     *)
(***************************************************************************)
\* The lists in which the store may return a set of joined rows: newest
\* game_date first, rows of equal game_date in any order.
RECURSIVE RowOrders(_)
RowOrders(rows) ==
    IF rows = {} THEN {<<>>}
    ELSE UNION {{<<r>> \o t : t \in RowOrders(rows \ {r})} :
                   r \in {x \in rows : \A y \in rows : y.game_date <= x.game_date}}

OrderSensitive(m) ==
    [current_streak |-> m.current_streak, win_rate_l10 |-> m.win_rate_l10,
     win_rate_l20 |-> m.win_rate_l20, win_rate_l50 |-> m.win_rate_l50,
     roi_l10 |-> m.roi_l10, roi_l20 |-> m.roi_l20,
     peak_bankroll |-> m.peak_bankroll, drawdown_pct |-> m.drawdown_pct]

\* C26: the streak, the windowed win rates, the windowed ROI, peak_bankroll
\* and drawdown_pct that get_performance_metrics reported are those it
\* reports for every other order in which the store may return the same
\* bets, bets of equal game_date included.
C26_OrderIndependence ==
    call.op = "get_bankroll_context" =>
        \A other \in RowOrders({call.db[k] : k \in DOMAIN call.db}) :
            OrderSensitive(get_performance_metrics(other)) = OrderSensitive(call.ret.metrics)

\* The list get_all_results returns when the store orders the picks as o.
RowsIn(o) == [k \in DOMAIN o |-> JoinedRow(o[k])]

\* The orders of the picks the manager reads, newest game_date first.
BetOrders == OrderByDateDesc({i \in PickIds : picks[i].should_bet})

\* The result rows a step stores.
NewRows == StoredRows(results') \ StoredRows(results)

\* The order of two fractions a/b and c/d (a, c >= 0 and b, d > 0) as -1, 0
\* or 1, found from their continued fractions so that no product is formed.
RECURSIVE ComparePos(_, _, _, _)
ComparePos(a, b, c, d) ==
    IF a \div b # c \div d THEN (IF a \div b < c \div d THEN -1 ELSE 1)
    ELSE IF a % b = 0 /\ c % d = 0 THEN 0
    ELSE IF a % b = 0 THEN -1
    ELSE IF c % d = 0 THEN 1
    ELSE -ComparePos(b, a % b, d, c % d)

\* x <= y for two floats of any size.
FloatLe(x, y) ==
    \E u \in {x}, v \in {y} :
        IF u.n < 0 /\ v.n >= 0 THEN TRUE
        ELSE IF u.n >= 0 /\ v.n < 0 THEN FALSE
        ELSE IF u.n >= 0 THEN ComparePos(u.n, u.d, v.n, v.d) <= 0
        ELSE ComparePos(-v.n, v.d, -u.n, u.d) <= 0

\* A step that settles exactly one bet, as a WIN.
SettlesOneWin ==
    /\ Cardinality(NewRows) = 1
    /\ \A row \in NewRows : row.result = "WIN" /\ RGe(row.profit_loss, Zero)

\* C27: when a step settles one more bet as a WIN, whatever its game date,
\* drawdown_pct (the store keeping its order of the bets) does not
\* increase, and a risk level other than CRISIS does not become CRISIS.
C27_WinNeverDeepensDrawdown ==
    [][SettlesOneWin =>
          \A o \in BetOrders :
             /\ FloatLe(get_performance_metrics(RowsIn(o)').drawdown_pct,
                        get_performance_metrics(RowsIn(o)).drawdown_pct)
             /\ get_risk_assessment(None, RowsIn(o)) # "crisis" =>
                    get_risk_assessment(None, RowsIn(o)') # "crisis"]_vars

\* C28: across a step that settles bets, a delayed game of an earlier date
\* included, peak_bankroll (the store keeping its order of the bets) does
\* not decrease.
C28_PeakNeverDecreases ==
    [][results' # results =>
          \A o \in BetOrders :
             RGe(get_performance_metrics(RowsIn(o)').peak_bankroll,
                 get_performance_metrics(RowsIn(o)).peak_bankroll)]_vars

\* The response of a Final game with the scores a result row records.
FinalGame(row) ==
    [status |-> "Final", home_score |-> row.home_score, away_score |-> row.away_score]

\* C29: for every settled pick, SPREAD or MONEYLINE, main.update_results and
\* fetch_results derive the same result and the same profit_loss from the
\* pick and the final scores stored with it, equal scores included.
C29_SettlementsAgree ==
    \A k \in DOMAIN results :
        \E row \in {results[k]} :
            /\ ResultRecord(row.pick_id, picks[row.pick_id], FinalGame(row)).result
                  = FetchedRecord(row.pick_id, picks[row.pick_id], FinalGame(row)).result
            /\ ResultRecord(row.pick_id, picks[row.pick_id], FinalGame(row)).profit_loss
                  = FetchedRecord(row.pick_id, picks[row.pick_id], FinalGame(row)).profit_loss

====
